--------------------------- MODULE MenuScreens ---------------------------
(***************************************************************************)
(* The pages of the Sidekick64 menu and its one message box               *)
(* (c64screen.cpp), as CKernelMenu::Run drives them in the network kernel: *)
(* handleC64 takes a key, handleQueuedNetworkAction and the checks after   *)
(* it raise and remove messages, renderC64 draws the page and the box.     *)
(*                                                                         *)
(* A message is a page of its own: it is raised by saving menuScreen in    *)
(* previousMenuScreen, and goes by putting it back.  SidekickNet describes *)
(* the network actions in detail; here a file is one that is saved, one    *)
(* that is launched, or an image.                                          *)
(***************************************************************************)
EXTENDS Naturals

CONSTANTS
    ConnectOnBoot,    \* NET_CONNECT_ON_BOOT
    UseWLAN,          \* usesWLAN()
    Outcomes,         \* how Initialize() may end, see Failures
    ImageDelay,       \* m_queueDelay set by prepareDownloadOfTGAImage
    MaxFiles,         \* bound on the files that arrive
    MaxReboots,       \* bound on the reboots asked for
    Countdown         \* bound on the messages of one reboot countdown

(* "usb": no USB host; "card", "net": the card or the network subsystem    *)
(* fail; "wlan": the WLAN device fails, silently; "link": no connection.   *)
Failures == {"usb", "card", "wlan", "link"}

ASSUME ConfigAssumption ==
    /\ ConnectOnBoot \in BOOLEAN /\ UseWLAN \in BOOLEAN
    /\ Outcomes \subseteq Failures \cup {"ok"}
    /\ ImageDelay \in Nat /\ MaxFiles \in Nat
    /\ MaxReboots \in Nat /\ Countdown \in Nat

Pages == {"main", "browser", "config", "network", "sktp", "systeminfo"}
Screens == Pages \cup {"error"}
Messages == {"local", "connecting", "failed", "http", "saving", "launching",
             "reboot"}
None == "none"

(* The keys that change the page: page, key, next page.                    *)
Links == { <<"main", "F7", "browser">>, <<"main", "F5", "config">>,
           <<"main", "at", "network">>, <<"browser", "F7", "main">>,
           <<"config", "F7", "browser">>, <<"config", "F5", "main">>,
           <<"network", "F5", "main">>, <<"network", "F7", "main">>,
           <<"network", "at", "main">>, <<"network", "s", "systeminfo">>,
           <<"network", "star", "sktp">>, <<"sktp", "F7", "main">>,
           <<"systeminfo", "F7", "main">> }
(* "c": connect; "crt": start a cartridge image; "bad": choose a file that *)
(* is missing or cannot be started, or save the settings; "other".         *)
Keys == {"F5", "F7", "at", "s", "star", "c", "crt", "bad", "other"}

NoLink(p, k) == \A q \in Pages : <<p, k, q>> \notin Links

VARIABLES
    pc,               \* where the main loop is
    menu,             \* menuScreen, previousMenuScreen, errorMsg, errorSticky
    updateNeeded,     \* m_isMenuScreenUpdateNeeded
    doRender,         \* handleNetwork's doRender
    refreshing,       \* the loop refreshes the screen without a key
    redraw,           \* updateMenu = 1 set by such a refresh
    key,              \* the key handleC64 was given in this frame
    before,           \* the page the user was on when the frame began
    shown,            \* the page and the message on the C64's screen
    running,          \* IsRunning()
    prepared,         \* "no", "usb": m_isUSBPrepared, "all": m_isPrepared
    initQueued,       \* m_isNetworkInitQueued
    keyQueued,        \* m_isSktpKeypressQueued
    dlQueued,         \* m_isCSDBDownloadQueued
    delay,            \* m_queueDelay
    ext,              \* m_CSDBDownloadExtension: "image" or "program"
    saveFlag,         \* m_bSaveCSDBDownload2SD
    dlReady,          \* m_isDownloadReady
    saveQueued,       \* m_isCSDBDownloadSavingQueued, and for which file
    ready,            \* m_isDownloadReadyForLaunch
    launchAfterSave,  \* m_doLaunchAfterSave
    reboot,           \* m_isRebootRequested
    ticks,            \* messages the reboot's countdown has still to show
    files, reboots    \* files and reboots so far

loopVars == <<updateNeeded, doRender, refreshing, redraw>>
userVars == <<key, before, shown>>
connVars == <<running, prepared, initQueued>>
pageVars == <<keyQueued, dlQueued, delay>>
fileVars == <<ext, saveFlag, dlReady, saveQueued, ready, launchAfterSave>>
sysVars  == <<reboot, ticks, files, reboots>>
vars == <<pc, menu, loopVars, userVars, connVars, pageVars, fileVars, sysVars>>
----------------------------------------------------------------------------
(* The message box.                                                        *)

SetErrorMsg2(m, text, sticky) ==
    [screen |-> "error", prev |-> m.screen, msg |-> text, sticky |-> sticky]

Restored(m) == IF m.screen = "error" THEN m.prev ELSE m.screen
Slip_ClearErrorMsg(m) ==
    IF m.msg = None THEN m ELSE [m EXCEPT !.screen = Restored(m), !.msg = None]
ClearErrorMsg(m) ==
    [m EXCEPT !.screen = IF m.msg = None THEN @ ELSE Restored(m),
              !.msg = None, !.sticky = FALSE]

Slip_RenderErrorMsg(m) ==
    [m EXCEPT !.msg = IF m.sticky THEN @ ELSE None,
              !.screen = IF m.sticky THEN m.prev ELSE @]
RenderErrorMsg(m) ==
    [m EXCEPT !.msg = IF m.sticky THEN @ ELSE None, !.screen = m.prev]

(* What renderC64 leaves, and what it draws: a message page draws nothing, *)
(* so that the box lies over the page drawn last.                          *)
RenderC64(m) == IF m.msg = None THEN m ELSE RenderErrorMsg(m)
Drawn(m, s) == [page |-> IF m.screen = "error" THEN s.page ELSE m.screen,
                msg |-> m.msg]

Init ==
    /\ pc = "boot"
    /\ menu = [screen |-> "main", prev |-> "main", msg |-> None, sticky |-> FALSE]
    /\ updateNeeded = FALSE /\ doRender = TRUE
    /\ refreshing = FALSE /\ redraw = FALSE
    /\ key = None /\ before = "main" /\ shown = [page |-> "main", msg |-> None]
    /\ running = FALSE /\ prepared = "no" /\ initQueued = FALSE
    /\ keyQueued = FALSE /\ dlQueued = FALSE /\ delay = 0
    /\ ext = "program" /\ saveFlag = FALSE /\ dlReady = FALSE
    /\ saveQueued = None /\ ready = FALSE /\ launchAfterSave = FALSE
    /\ reboot = FALSE /\ ticks = 0 /\ files = 0 /\ reboots = 0
----------------------------------------------------------------------------
(* CSidekickNet::Initialize.                                               *)

Fail(m) == SetErrorMsg2(m, "failed", TRUE)

(* Failures that are not told: a WLAN device that fails, and, when the     *)
(* connection is made on boot, a cable that is not plugged in.             *)
Silent(o) == o = "wlan" \/ (o = "link" /\ ~UseWLAN /\ ConnectOnBoot)

(* The messages of one failure: initializeUSBHCIDevice and its caller      *)
(* Prepare both raise one.                                                 *)
AfterFailure(m, o) == IF o = "usb" THEN Fail(Fail(m)) ELSE Fail(m)

AfterConnecting(m, o) ==
    IF o = "ok" THEN ClearErrorMsg(m)
    ELSE IF Silent(o) THEN m ELSE AfterFailure(m, o)

Possible(o) ==
    /\ o = "usb" => prepared = "no"
    /\ o \in {"card", "wlan"} => prepared # "all"
    /\ o = "wlan" => UseWLAN

Initialize(o) ==
    /\ o \in Outcomes /\ Possible(o)
    /\ running' = (o = "ok")
    /\ prepared' = CASE o = "usb" -> "no"
                     [] o \in {"card", "wlan"} -> "usb"
                     [] OTHER -> "all"
    /\ menu' = AfterConnecting(menu, o)
    /\ updateNeeded' = (updateNeeded \/ ~Silent(o))

(* CKernelMenu::Initialize: connect if configured, and the first page.     *)
Boot ==
    /\ pc = "boot"
    /\ IF ConnectOnBoot THEN \E o \in Outcomes : Initialize(o)
       ELSE UNCHANGED <<running, prepared, menu, updateNeeded>>
    /\ pc' = "render"
    /\ UNCHANGED <<doRender, refreshing, redraw, userVars, initQueued, pageVars,
                   fileVars, sysVars>>
----------------------------------------------------------------------------
(* The main loop: CKernelMenu::Run.                                        *)

(* isRebootRequested: once a second a message counts down.                 *)
RebootCountdown ==
    /\ pc = "loop" /\ reboot /\ ticks > 0
    /\ menu' = SetErrorMsg2(menu, "reboot", TRUE)
    /\ updateNeeded' = TRUE
    /\ ticks' = ticks - 1
    /\ UNCHANGED <<pc, doRender, refreshing, redraw, userVars, connVars,
                   pageVars, fileVars, reboot, files, reboots>>

RebootNow ==
    /\ pc = "loop" /\ reboot /\ ticks = 0
    /\ pc' = "off"
    /\ UNCHANGED <<menu, loopVars, userVars, connVars, pageVars, fileVars, sysVars>>

(* handleNetwork( true ) begins: the C64 has sent a key or asked for the   *)
(* screen, or the loop redraws after a refresh.                            *)
StartFrame(k) ==
    /\ pc = "loop" /\ (reboot => ticks > 0)
    /\ pc' = "net" /\ doRender' = TRUE /\ redraw' = FALSE
    /\ before' = IF menu.msg = None THEN menu.screen ELSE Restored(menu)
    /\ key' = IF menu.screen = "error" THEN None ELSE k
    /\ UNCHANGED <<refreshing, shown, running, prepared, dlQueued, fileVars,
                   sysVars>>

NoKey ==
    /\ StartFrame(None)
    /\ UNCHANGED <<menu, updateNeeded, initQueued, keyQueued, delay>>

(* Any key takes the user away from a message page.                        *)
LeaveError(k) ==
    /\ ~redraw /\ menu.screen = "error"
    /\ StartFrame(k)
    /\ menu' = [menu EXCEPT !.screen = menu.prev]
    /\ UNCHANGED <<updateNeeded, initQueued, keyQueued, delay>>

(* The SKTP browser is entered only with a connection.                     *)
Navigate(k, p) ==
    /\ ~redraw /\ <<menu.screen, k, p>> \in Links
    /\ p = "sktp" => running
    /\ StartFrame(k)
    /\ menu' = [menu EXCEPT !.screen = p,
                  !.prev = IF menu.screen = "sktp" THEN "sktp" ELSE @]
    /\ UNCHANGED <<updateNeeded, initQueued, keyQueued, delay>>

(* A message of handleC64 itself: the flag errorSticky is left alone.      *)
LocalError ==
    /\ ~redraw /\ menu.screen \in {"main", "browser", "config"}
    /\ StartFrame("bad")
    /\ menu' = [menu EXCEPT !.screen = "error", !.prev = menu.screen,
                            !.msg = "local"]
    /\ UNCHANGED <<updateNeeded, initQueued, keyQueued, delay>>

(* Starting a cartridge image forgets the message.                         *)
LaunchCRT ==
    /\ ~redraw /\ menu.screen \in {"main", "browser"}
    /\ StartFrame("crt")
    /\ menu' = [menu EXCEPT !.msg = None]
    /\ UNCHANGED <<updateNeeded, initQueued, keyQueued, delay>>

(* 'c' on the network page: queueNetworkInit and its message.              *)
Connect ==
    /\ ~redraw /\ menu.screen = "network" /\ ~running
    /\ StartFrame("c")
    /\ initQueued' = TRUE /\ delay' = 1
    /\ menu' = SetErrorMsg2(ClearErrorMsg(menu), "connecting", FALSE)
    /\ UNCHANGED <<updateNeeded, keyQueued>>

AnyQueued == initQueued \/ keyQueued \/ dlQueued \/ saveQueued # None

(* On the SKTP page every other key, and a page to be redrawn, asks the    *)
(* server (queueSktpKeypress).                                             *)
AskServer ==
    /\ menu.screen = "sktp"
    /\ StartFrame("other")
    /\ keyQueued' = TRUE /\ delay' = IF AnyQueued THEN delay ELSE 0
    /\ UNCHANGED <<menu, updateNeeded, initQueued>>

(* Keys the page at hand does not know: 'c' outside the network page (on   *)
(* the main menu it may be an entry's key), a link of another page.        *)
OtherKey(k) ==
    /\ ~redraw /\ menu.screen \notin {"error", "sktp"}
    /\ k \in Keys \ {"crt", "bad"}
    /\ NoLink(menu.screen, k) \/ (k = "star" /\ ~running)
    /\ k = "c" => menu.screen # "network" \/ running
    /\ StartFrame(k)
    /\ UNCHANGED <<menu, updateNeeded, initQueued, keyQueued, delay>>

HandleC64 ==
    \/ NoKey \/ LocalError \/ LaunchCRT \/ Connect \/ AskServer
    \/ \E k \in Keys : LeaveError(k) \/ OtherKey(k)
    \/ \E l \in Links : Navigate(l[2], l[3])

(* handleNetwork( false ): something on the Raspberry Pi's side has        *)
(* changed the screen.  isMenuScreenUpdateNeeded() resets the flag.        *)
Refresh ==
    /\ pc = "loop" /\ (reboot => ticks > 0) /\ ~redraw /\ updateNeeded
    /\ pc' = "net" /\ updateNeeded' = FALSE
    /\ doRender' = ~running /\ refreshing' = TRUE
    /\ key' = None
    /\ before' = IF menu.msg = None THEN menu.screen ELSE Restored(menu)
    /\ UNCHANGED <<menu, redraw, shown, connVars, pageVars, fileVars, sysVars>>
----------------------------------------------------------------------------
(* handleQueuedNetworkAction, seen from the menu.                          *)

(* The web server's tasks get their turns unless a file waits for its      *)
(* launch or, on WLAN, anything is queued.                                 *)
WebTurn ==
    /\ pc = "net" /\ running /\ ~ready
    /\ UseWLAN => ~AnyQueued

Upload(mode) ==
    /\ WebTurn /\ files < MaxFiles
    /\ files' = files + 1
    /\ ext' = "program"
    /\ saveQueued' = IF mode = "launch" THEN None ELSE "upload"
    /\ ready' = (mode = "launch")
    /\ launchAfterSave' = (launchAfterSave \/ mode = "both")
    /\ UNCHANGED <<pc, menu, loopVars, userVars, connVars, pageVars, saveFlag,
                   dlReady, reboot, ticks, reboots>>

RequestReboot ==
    /\ WebTurn /\ reboots < MaxReboots
    /\ reboots' = reboots + 1 /\ reboot' = TRUE /\ ticks' = Countdown
    /\ UNCHANGED <<pc, menu, loopVars, userVars, connVars, pageVars, fileVars,
                   files>>

Slip_NextCheck(p) ==
    CASE p = "net" -> "launch" [] p = "launch" -> "finish"
      [] p = "finish" -> "save" [] p = "save" -> "render"
NextCheck(p) ==
    CASE p = "net" -> "launch" [] p = "launch" -> "save"
      [] p = "save" -> "finish" [] p = "finish" -> "render"
AfterQueue(isRunning) == IF isRunning THEN NextCheck("net") ELSE "render"

Slip_CountDown == delay' = delay - 1
CountDown == delay > 0 /\ delay' = delay - 1

Delayed ==
    /\ pc = "net" /\ CountDown
    /\ pc' = AfterQueue(running)
    /\ UNCHANGED <<menu, loopVars, userVars, connVars, keyQueued, dlQueued,
                   fileVars, sysVars>>

RunInit ==
    /\ pc = "net" /\ delay = 0 /\ initQueued /\ ~running
    /\ \E o \in Outcomes : Initialize(o)
    /\ initQueued' = FALSE
    /\ pc' = AfterQueue(running')
    /\ UNCHANGED <<doRender, refreshing, redraw, userVars, pageVars, fileVars,
                   sysVars>>

RunDownload(ok) ==
    /\ pc = "net" /\ delay = 0 /\ running /\ dlQueued
    /\ dlQueued' = FALSE
    /\ dlReady' = (dlReady \/ ok)
    /\ menu' = IF ok THEN menu ELSE SetErrorMsg2(menu, "http", FALSE)
    /\ updateNeeded' = (updateNeeded \/ ~ok)
    /\ pc' = NextCheck("net")
    /\ UNCHANGED <<doRender, refreshing, redraw, userVars, connVars, keyQueued,
                   delay, ext, saveFlag, saveQueued, ready, launchAfterSave,
                   sysVars>>

(* The answer is a page, or a command to download a program.               *)
RunKeypress(command, save) ==
    /\ pc = "net" /\ delay = 0 /\ running /\ ~dlQueued /\ keyQueued
    /\ keyQueued' = FALSE
    /\ command => files < MaxFiles
    /\ files' = files + (IF command THEN 1 ELSE 0)
    /\ dlQueued' = command
    /\ ext' = IF command THEN "program" ELSE ext
    /\ saveFlag' = IF command THEN save ELSE saveFlag
    /\ pc' = NextCheck("net")
    /\ UNCHANGED <<menu, loopVars, userVars, connVars, delay, dlReady, saveQueued,
                   ready, launchAfterSave, reboot, ticks, reboots>>

NothingToDo ==
    /\ pc = "net" /\ delay = 0
    /\ IF running THEN ~dlQueued /\ ~keyQueued ELSE ~initQueued
    /\ pc' = AfterQueue(running)
    /\ UNCHANGED <<menu, loopVars, userVars, connVars, pageVars, fileVars, sysVars>>
----------------------------------------------------------------------------
(* The checks of handleNetwork, in their order.                            *)

CleanupDownloadData ==
    /\ menu' = ClearErrorMsg(menu)
    /\ ext' = "program" /\ saveFlag' = FALSE
    /\ ready' = FALSE /\ launchAfterSave' = FALSE

LaunchCheck ==
    /\ pc = "launch" /\ pc' = NextCheck(pc)
    /\ IF ready THEN CleanupDownloadData
       ELSE UNCHANGED <<menu, ext, saveFlag, ready, launchAfterSave>>
    /\ UNCHANGED <<loopVars, userVars, connVars, pageVars, dlReady, saveQueued,
                   sysVars>>

SaveCheck ==
    /\ pc = "save" /\ pc' = NextCheck(pc)
    /\ IF saveQueued = None
       THEN UNCHANGED <<menu, keyQueued, ext, saveFlag, ready, launchAfterSave>>
       ELSE /\ keyQueued' = FALSE
            /\ IF launchAfterSave
               THEN /\ ready' = TRUE /\ launchAfterSave' = FALSE
                    /\ UNCHANGED <<menu, ext, saveFlag>>
               ELSE CleanupDownloadData
    /\ saveQueued' = None
    /\ UNCHANGED <<loopVars, userVars, connVars, dlQueued, delay, dlReady, sysVars>>

(* checkForFinishedDownload: an image goes to the display, a program is    *)
(* announced and then saved or launched by the next frame's checks.        *)
Announce ==
    IF saveFlag
    THEN /\ menu' = SetErrorMsg2(menu, "saving", FALSE)
         /\ ready' = FALSE /\ saveQueued' = "download"
    ELSE /\ menu' = SetErrorMsg2(menu, "launching", TRUE)
         /\ ready' = TRUE /\ UNCHANGED saveQueued

FinishCheck ==
    /\ pc = "finish" /\ dlReady
    /\ dlReady' = FALSE
    /\ IF ext = "image"
       THEN CleanupDownloadData /\ saveQueued' = None /\ UNCHANGED updateNeeded
       ELSE /\ Announce /\ updateNeeded' = TRUE
            /\ UNCHANGED <<ext, saveFlag, launchAfterSave>>
    /\ pc' = NextCheck(pc)
    /\ UNCHANGED <<doRender, refreshing, redraw, userVars, connVars, pageVars,
                   sysVars>>

NothingFinished ==
    /\ pc = "finish" /\ ~dlReady /\ pc' = NextCheck(pc)
    /\ UNCHANGED <<menu, loopVars, userVars, connVars, pageVars, fileVars, sysVars>>
----------------------------------------------------------------------------
(* renderC64, once by handleNetwork if doRender or, with a connection, if  *)
(* isMenuScreenUpdateNeeded(), which resets the flag; and once more by a   *)
(* refresh.  The SKTP page at hand may hold a command to load an image.    *)

Renders == doRender \/ (running /\ updateNeeded)

AfterRender == IF Renders THEN RenderC64(menu) ELSE menu

QueueImage ==
    /\ menu.screen = "sktp" /\ Renders /\ files < MaxFiles
    /\ files' = files + 1
    /\ dlQueued' = TRUE /\ ext' = "image" /\ delay' = ImageDelay

EndFrame ==
    /\ pc = "render" /\ ~refreshing
    /\ pc' = "loop"
    /\ menu' = AfterRender
    /\ shown' = IF Renders THEN Drawn(menu, shown) ELSE shown
    /\ updateNeeded' = (updateNeeded /\ ~running)
    /\ \/ QueueImage
       \/ UNCHANGED <<files, dlQueued, ext, delay>>
    /\ UNCHANGED <<doRender, refreshing, redraw, key, before, connVars, keyQueued,
                   saveFlag, dlReady, saveQueued, ready, launchAfterSave, reboot, ticks,
                   reboots>>

EndRefresh ==
    /\ pc = "render" /\ refreshing
    /\ pc' = "loop" /\ refreshing' = FALSE /\ redraw' = TRUE
    /\ menu' = RenderC64(AfterRender)
    /\ shown' = Drawn(AfterRender, IF Renders THEN Drawn(menu, shown) ELSE shown)
    /\ updateNeeded' = (updateNeeded /\ ~running)
    /\ \/ QueueImage
       \/ UNCHANGED <<files, dlQueued, ext, delay>>
    /\ UNCHANGED <<doRender, key, before, connVars, keyQueued, saveFlag, dlReady,
                   saveQueued, ready, launchAfterSave, reboot, ticks, reboots>>

Next ==
    \/ Boot \/ RebootCountdown \/ RebootNow \/ HandleC64 \/ Refresh
    \/ \E mode \in {"save", "launch", "both"} : Upload(mode)
    \/ RequestReboot \/ Delayed \/ RunInit \/ NothingToDo
    \/ \E ok \in BOOLEAN : RunDownload(ok)
    \/ \E command, save \in BOOLEAN : RunKeypress(command, save)
    \/ LaunchCheck \/ SaveCheck \/ FinishCheck \/ NothingFinished
    \/ EndFrame \/ EndRefresh

Spec == Init /\ [][Next]_vars
----------------------------------------------------------------------------

Menus == [screen : Screens, prev : Screens, msg : Messages \cup {None},
          sticky : BOOLEAN]
Sights == [page : Pages, msg : Messages \cup {None}]

LoopTypeOK ==
    /\ pc \in {"boot", "loop", "net", "launch", "save", "finish", "render", "off"}
    /\ updateNeeded \in BOOLEAN /\ doRender \in BOOLEAN
    /\ refreshing \in BOOLEAN /\ redraw \in BOOLEAN
    /\ reboot \in BOOLEAN
    /\ ticks \in Nat /\ files \in Nat /\ reboots \in Nat
UserTypeOK ==
    /\ menu \in Menus /\ shown \in Sights
    /\ key \in Keys \cup {None} /\ before \in Screens
NetTypeOK ==
    /\ running \in BOOLEAN /\ prepared \in {"no", "usb", "all"}
    /\ initQueued \in BOOLEAN /\ keyQueued \in BOOLEAN
    /\ dlQueued \in BOOLEAN /\ delay \in Nat
    /\ ext \in {"program", "image"} /\ saveFlag \in BOOLEAN
    /\ dlReady \in BOOLEAN /\ saveQueued \in {None, "download", "upload"}
    /\ ready \in BOOLEAN /\ launchAfterSave \in BOOLEAN

(* Every variable keeps its type: whatever raises and removes messages,    *)
(* there is always a page, or a message page, to go back to, and           *)
(* m_queueDelay never passes 0.                                            *)
TypeOK == LoopTypeOK /\ UserTypeOK /\ NetTypeOK

(* A message that stays (errorSticky) has a cause that will remove it or   *)
(* that the user must know of: there is no connection, a file waits for    *)
(* its launch, or the Raspberry Pi is about to reboot.  Each of the places *)
(* that set and clear the flag is far from the others (net.cpp 1137, 377). *)
StickyHasCause == menu.sticky => ~running \/ ready \/ reboot

(* From page p, key k leads to q, or nowhere and q is p.                   *)
Follows(p, k, q) == <<p, k, q>> \in Links \/ (q = p /\ (NoLink(p, k) \/ k = "star"))

(* "handleC64 processes the key the user has pressed to determine how the  *)
(* screen has to change (e.g. jump from page a to page b)", and nothing    *)
(* else does: after a frame the user is on the page the key leads to, or   *)
(* where he was, whatever messages the network raised and removed.  Not so *)
(* while a message stays, which holds its page, not during the countdown   *)
(* of a reboot, and not for a key that raised a message itself.            *)
PageFollowsKey ==
    pc = "loop" /\ ~menu.sticky /\ ~reboot /\ key # "bad" =>
        Follows(before, key, menu.screen)

(* "we save it to sd card after the status message was rendered by         *)
(* checkForFinishedDownload" (kernel_menu.cpp): the long steps, connecting *)
(* and saving a download, begin only when the C64 shows the message that   *)
(* tells the user to wait.  A reboot's countdown refreshes the screen in   *)
(* between, and refreshing draws it a second time without the message.     *)
WorkAnnounced ==
    /\ pc = "net" /\ initQueued /\ ~running /\ delay = 0 => shown.msg = "connecting"
    /\ pc = "save" /\ saveQueued = "download" =>
           shown.msg = "saving" \/ reboot
=============================================================================
