--------------------------- MODULE SidekickNet ---------------------------
(***************************************************************************)
(* CSidekickNet (net.cpp): the queue of network actions of Sidekick64, the *)
(* files that reach the cartridge by download (SKTP browser) and by upload *)
(* (web server), and what the menu and the PRG launcher do with them.      *)
(*                                                                         *)
(* One thread of control, the main loop, alternates between the menu       *)
(* (CKernelMenu::Run) and the kernel of the program it launched.  Both     *)
(* call handleQueuedNetworkAction.  The workers of the web server are      *)
(* cooperative tasks: they run while the main loop is inside               *)
(* m_pScheduler->Yield(), and while an HTTP client waits for its answer.   *)
(* All of them share one buffer for the file's bytes (prgDataLaunch) and   *)
(* one set of fields for its name, extension and path.                     *)
(*                                                                         *)
(* A file is a member of one of the sets below.  The buffer, the extension *)
(* and the save path hold the file they were last set for, or None.        *)
(***************************************************************************)
EXTENDS Naturals

CONSTANTS
    Uploads,          \* files sent by a browser to the web server
    Downloads,        \* programs offered by SKTP pages
    Images,           \* TGA images offered by SKTP pages
    Picks,            \* programs inside a D64 or SID file the user may pick
    WebPrg,           \* the built-in "web upload mode" program
    None,
    UseWLAN,          \* usesWLAN()
    BootConnect,      \* the values IsRunning() may have when the menu starts
    WebOnBoot,        \* netEnableWebserver as configured
    PageRequests,     \* does a browser open the upload page?
    WebDuringGet,     \* do web requests arrive while an HTTP client waits?
    Yields,           \* calls of Yield() per handleQueuedNetworkAction
    ImageDelay,       \* m_queueDelay set by prepareDownloadOfTGAImage
    SaveRefresh,      \* the refresh timeout set by saveDownload2SD
    MaxReboots        \* bound on the reboots asked for

FromCard == "card"    \* launchKernel names a file the kernel reads itself
NoLaunch == "no"      \* launchKernel = 0
Missing == "missing"  \* no file is stored under a path

Files == Uploads \cup Downloads \cup Images \cup Picks \cup {WebPrg}

ASSUME FilesAssumption ==
    /\ Files \cap {None, FromCard, NoLaunch, Missing} = {}
    /\ None \notin {FromCard, NoLaunch, Missing}
    /\ WebPrg \notin Uploads \cup Downloads \cup Images \cup Picks
    /\ Uploads \cap Downloads = {} /\ Uploads \cap Images = {}
    /\ Downloads \cap Images = {}
    /\ Picks \cap (Uploads \cup Downloads \cup Images) = {}
ASSUME ConfigAssumption ==
    /\ {UseWLAN, WebOnBoot, PageRequests, WebDuringGet} \subseteq BOOLEAN
    /\ BootConnect \subseteq BOOLEAN
    /\ Yields \in Nat \ {0} /\ ImageDelay \in Nat
    /\ SaveRefresh \in Nat \ {0} /\ MaxReboots \in Nat

VARIABLES
    prog,             \* the program that owns the main loop
    pc,               \* where the main loop is inside a network call
    running,          \* m_currentKernelRunning: "m" menu, "l" launcher
    cartOff,          \* disableCart of the menu: the user went to BASIC
    screen,           \* menuScreen
    launch,           \* launchKernel and the file it was set for
    started,          \* the file of the last Kernel*Run and the bytes it got
    yields,           \* turns left of the yield loop
    active,           \* m_isActive
    initQueued,       \* m_isNetworkInitQueued
    keyQueued,        \* m_isSktpKeypressQueued
    key,              \* m_sktpKey: 0 none, 1 a key of the user
    dlQueued,         \* m_isCSDBDownloadQueued
    saveQueued,       \* m_isCSDBDownloadSavingQueued
    delay,            \* m_queueDelay
    buf,              \* prgDataLaunch and prgSizeLaunch
    ext,              \* m_CSDBDownloadExtension: decides what is launched
    path,             \* m_CSDBDownloadHost and m_CSDBDownloadPath
    savePath,         \* m_CSDBDownloadSavePath
    saveFlag,         \* m_bSaveCSDBDownload2SD
    ready,            \* m_isDownloadReadyForLaunch
    dlReady,          \* m_isDownloadReady
    launchAfterSave,  \* m_doLaunchAfterSave
    session,          \* m_sktpSession: 0 none, 1 active, 2 redraw wanted
    refresh,          \* m_sktpRefreshWaiting
    skip,             \* m_skipSktpRefresh
    timeout,          \* m_sktpRefreshTimeout
    page,             \* the chunk of the last page that acts when rendered
    msg,              \* a message box hides the page at the next rendering
    webEnabled,       \* netEnableWebserver
    webRunning,       \* m_WebServer # 0
    returnReq,        \* m_isReturnToMenuRequested
    reboot,           \* m_isRebootRequested and its countdown
    card,             \* SD card: what is stored under each file's save path
    sent,             \* what each upload asked for, "no" before it is sent
    offered,          \* downloads and images used up
    reboots           \* reboots asked for

progVars  == <<prog, running, cartOff, screen, launch, started>>
netVars   == <<active, webEnabled, webRunning>>
queueVars == <<initQueued, keyQueued, key, dlQueued, saveQueued, delay>>
metaVars  == <<ext, path, saveFlag>>
fileVars  == <<buf, savePath, ready, dlReady, launchAfterSave>>
sktpVars  == <<session, refresh, skip, timeout, page, msg>>
sysVars   == <<returnReq, reboot, reboots>>
envVars   == <<card, sent, offered>>
vars == <<progVars, pc, yields, netVars, queueVars, metaVars, fileVars,
          sktpVars, sysVars, envVars>>
----------------------------------------------------------------------------

AnyQueued == initQueued \/ keyQueued \/ dlQueued \/ saveQueued

RedrawSession(s) == IF s = 1 THEN 2 ELSE s

(* Definitions named Slip_... are not part of the model: each is the        *)
(* definition that follows it with one plausible mistake, to show that the  *)
(* properties can fail.                                                     *)
Slip_CleanupDownloadData ==
    /\ ext' = None /\ path' = None /\ savePath' = None /\ saveFlag' = FALSE
    /\ ready' = FALSE /\ UNCHANGED launchAfterSave
    /\ session' = RedrawSession(session)
    /\ msg' = FALSE

(* Everything a finished file leaves behind is dropped: error message, name, *)
(* path, flags.  The queued save and the bytes in the buffer stay.           *)
CleanupDownloadData ==
    /\ ext' = None /\ path' = None /\ savePath' = None /\ saveFlag' = FALSE
    /\ ready' = FALSE /\ launchAfterSave' = FALSE
    /\ session' = RedrawSession(session)
    /\ msg' = FALSE

Init ==
    /\ prog = "menu" /\ pc = "idle" /\ running = "m" /\ cartOff = FALSE
    /\ screen = "main" /\ launch = NoLaunch /\ yields = 0
    /\ started = [file |-> NoLaunch, data |-> NoLaunch]
    /\ active \in BootConnect
    /\ webEnabled = WebOnBoot /\ webRunning = (active /\ WebOnBoot)
    /\ initQueued = FALSE /\ keyQueued = FALSE /\ key = 0
    /\ dlQueued = FALSE /\ saveQueued = FALSE /\ delay = 0
    /\ buf = None /\ ext = None /\ path = None /\ savePath = None
    /\ saveFlag = FALSE /\ ready = FALSE /\ dlReady = FALSE
    /\ launchAfterSave = FALSE
    /\ session = 0 /\ refresh = FALSE /\ skip = 0 /\ timeout = 0
    /\ page = "none" /\ msg = FALSE
    /\ returnReq = FALSE /\ reboot = "no" /\ reboots = 0
    /\ card = [f \in Files |-> Missing] /\ offered = {}
    /\ sent = [u \in Uploads |-> "no"]
----------------------------------------------------------------------------
(* The menu: handleC64, called first by handleNetwork(true).               *)

InMenu == prog = "menu" /\ pc = "idle" /\ ~cartOff /\ reboot # "due"

QueueSktpKeypress(k) ==
    /\ delay' = IF AnyQueued THEN delay ELSE 0
    /\ keyQueued' = TRUE
    /\ key' = k
    /\ UNCHANGED <<initQueued, dlQueued, saveQueued>>

RedrawNeeded == screen = "sktp"

(* No key was pressed.  An SKTP page that wants a redraw is asked for again. *)
KeyNone ==
    /\ IF screen = "sktp" /\ session = 2
       THEN QueueSktpKeypress(0)
       ELSE UNCHANGED queueVars
    /\ UNCHANGED <<progVars, netVars, fileVars, metaVars, sktpVars>>

(* Moves between the screens.  The new screen handles the key 0xffffffff;  *)
(* the SKTP browser also wants a redraw and sends that key to its server.  *)
KeyScreen(from, to) ==
    /\ screen = from
    /\ to = "sktp" => active
    /\ screen' = to
    /\ session' = IF to = "sktp" THEN RedrawSession(session) ELSE session
    /\ IF to = "sktp" THEN QueueSktpKeypress(1) ELSE UNCHANGED queueVars
    /\ UNCHANGED <<prog, running, cartOff, launch, started, netVars,
                   fileVars, metaVars, refresh, skip, timeout, page, msg>>

KeySktp ==
    /\ screen = "sktp"
    /\ QueueSktpKeypress(1)
    /\ UNCHANGED <<progVars, netVars, fileVars, metaVars, sktpVars>>

(* "c" in the network menu: queueNetworkInit.                              *)
KeyConnect ==
    /\ screen = "network" /\ ~active
    /\ initQueued' = TRUE /\ delay' = 1 /\ msg' = TRUE
    /\ UNCHANGED <<progVars, netVars, keyQueued, key, dlQueued, saveQueued,
                   fileVars, metaVars, session, refresh, skip, timeout, page>>

(* "w" in the network menu.                                                *)
KeyWebserver ==
    /\ screen = "network" /\ active /\ ~webEnabled
    /\ webEnabled' = TRUE
    /\ UNCHANGED <<progVars, active, webRunning, queueVars, fileVars, metaVars,
                   sktpVars>>

(* A program inside a D64 image, or a SID file, is unpacked to the buffer. *)
KeyPick(f) ==
    /\ screen = "browser"
    /\ buf' = f /\ launch' = f
    /\ UNCHANGED <<prog, running, cartOff, screen, started, netVars, queueVars,
                   savePath, ready, dlReady, launchAfterSave, metaVars, sktpVars>>

(* Anything launched from the card or built in leaves the buffer alone.    *)
KeyLaunch ==
    /\ screen \in {"main", "browser"}
    /\ launch' = FromCard
    /\ UNCHANGED <<prog, running, cartOff, screen, started, netVars, queueVars,
                   fileVars, metaVars, sktpVars>>

(* "Exit to BASIC": deactivateCart.                                        *)
KeyExit ==
    /\ screen = "main"
    /\ cartOff' = TRUE /\ running' = "l"
    /\ UNCHANGED <<prog, screen, launch, started, netVars, queueVars, fileVars,
                   metaVars, sktpVars>>

Moves == {<<"main", "browser">>, <<"browser", "main">>, <<"main", "network">>,
          <<"network", "main">>, <<"network", "sktp">>, <<"sktp", "main">>}

HandleC64 ==
    \/ KeyNone
    \/ \E m \in Moves : KeyScreen(m[1], m[2])
    \/ KeySktp
    \/ KeyConnect
    \/ KeyWebserver
    \/ \E f \in Picks : KeyPick(f)
    \/ KeyLaunch
    \/ KeyExit

(* handleNetwork(true): the C64 asked for the next screen.                 *)
MenuFrame ==
    /\ InMenu
    /\ pc' = "enter"
    /\ HandleC64
    /\ UNCHANGED <<yields, sysVars, envVars>>

IdleFrame == MenuFrame /\ KeyNone

(* handleNetwork(false): the reboot countdown wants the screen updated.    *)
MenuRefresh ==
    /\ prog = "menu" /\ pc = "idle" /\ reboot = "requested"
    /\ pc' = "enter"
    /\ UNCHANGED <<progVars, yields, netVars, queueVars, fileVars, metaVars,
                   sktpVars, sysVars, envVars>>
----------------------------------------------------------------------------
(* handleQueuedNetworkAction: first the turns of the web server.           *)

Slip_YieldGate == ~AnyQueued /\ UseWLAN

(* On WLAN the web server waits until the queue is empty.                  *)
YieldGate == ~AnyQueued \/ ~UseWLAN

EnterQueue ==
    /\ pc = "enter"
    /\ IF active /\ YieldGate
       THEN /\ pc' = "net" /\ yields' = Yields
            /\ webRunning' = (webRunning \/ webEnabled)
       ELSE pc' = "queue" /\ UNCHANGED <<yields, webRunning>>
    /\ UNCHANGED <<progVars, active, webEnabled, queueVars, fileVars, metaVars,
                   sktpVars, sysVars, envVars>>

Slip_StopYielding == ready

(* A file that waits to be launched ends the loop: its bytes must not be   *)
(* overwritten by the next request.                                        *)
StopYielding == ready \/ yields = 0

YieldLoop ==
    /\ pc = "net"
    /\ IF StopYielding
       THEN pc' = "queue" /\ yields' = 0
       ELSE pc' = "yield" /\ yields' = yields - 1
    /\ UNCHANGED <<progVars, netVars, queueVars, fileVars, metaVars, sktpVars,
                   sysVars, envVars>>

YieldReturns ==
    /\ pc = "yield"
    /\ pc' = "net"
    /\ UNCHANGED <<progVars, yields, netVars, queueVars, fileVars, metaVars,
                   sktpVars, sysVars, envVars>>
----------------------------------------------------------------------------
(* The web server: CWebServer::GetContent, run by a worker task.           *)

Serving ==
    /\ webRunning
    /\ \/ pc = "yield"
       \/ WebDuringGet /\ pc \in {"session", "page", "file"}

Slip_UploadSavePath(u) == IF savePath = None THEN u ELSE savePath

UploadSavePath(u) == IF saveQueued' THEN u ELSE savePath

(* prepareLaunchOfUpload, after the bytes went to the buffer.              *)
Upload(u, mode) ==
    /\ Serving /\ sent[u] = "no"
    /\ sent' = [sent EXCEPT ![u] = mode]
    /\ buf' = u /\ ext' = u
    /\ saveQueued' = (mode # "launch")
    /\ ready' = (ready \/ mode = "launch")
    /\ launchAfterSave' = (launchAfterSave \/ mode = "both")
    /\ savePath' = UploadSavePath(u)
    /\ returnReq' = (returnReq \/ (running = "l" /\ (ready' \/ launchAfterSave')))
    /\ UNCHANGED <<progVars, pc, yields, netVars, initQueued, keyQueued, key,
                   dlQueued, delay, path, saveFlag, dlReady, sktpVars, reboot,
                   reboots, card, offered>>

(* GET "/": enterWebUploadMode.  In the menu the C64 gets a program that   *)
(* shows the address of the web server.                                    *)
OpenPage ==
    /\ Serving /\ PageRequests /\ running = "m"
    /\ buf' = WebPrg /\ ext' = WebPrg /\ ready' = TRUE
    /\ UNCHANGED <<progVars, pc, yields, netVars, queueVars, path, saveFlag,
                   savePath, dlReady, launchAfterSave, sktpVars, sysVars, envVars>>

(* A new configuration or kernel image was stored: requestReboot.          *)
RequestReboot ==
    /\ Serving /\ reboots < MaxReboots
    /\ reboots' = reboots + 1 /\ reboot' = "requested"
    /\ UNCHANGED <<progVars, pc, yields, netVars, queueVars, fileVars, metaVars,
                   sktpVars, returnReq, envVars>>

WebRequest ==
    \/ \E u \in Uploads, mode \in {"save", "launch", "both"} : Upload(u, mode)
    \/ OpenPage
    \/ RequestReboot

(* The three seconds of isRebootRequested have passed.                     *)
RebootElapses ==
    /\ reboot = "requested" /\ reboot' = "due"
    /\ UNCHANGED <<progVars, pc, yields, netVars, queueVars, fileVars, metaVars,
                   sktpVars, returnReq, reboots, envVars>>
----------------------------------------------------------------------------
(* handleQueuedNetworkAction: one entry of the queue.                      *)

AfterQueue == IF prog = "menu" THEN "launch" ELSE "idle"

Dispatch == pc = "queue" /\ delay = 0

Slip_CountDelay ==
    /\ pc = "queue" /\ delay > 0
    /\ pc' = AfterQueue
    /\ UNCHANGED <<progVars, yields, netVars, queueVars, fileVars, metaVars, sktpVars,
                   sysVars, envVars>>

CountDelay ==
    /\ pc = "queue" /\ delay > 0
    /\ delay' = delay - 1
    /\ pc' = AfterQueue
    /\ UNCHANGED <<progVars, yields, netVars, initQueued, keyQueued, key, dlQueued,
                   saveQueued, fileVars, metaVars, sktpVars, sysVars, envVars>>

(* Initialize() and UpdateTime().  A failed attempt leaves the queue too.  *)
QueuedInit ==
    /\ Dispatch /\ initQueued /\ ~active
    /\ initQueued' = FALSE
    /\ active' \in BOOLEAN
    /\ webRunning' = (active' /\ webEnabled)
    /\ msg' = ~active'
    /\ pc' = AfterQueue
    /\ UNCHANGED <<progVars, yields, webEnabled, keyQueued, key, dlQueued, saveQueued,
                   delay, fileVars, metaVars, session, refresh, skip, timeout,
                   page, sysVars, envVars>>

StartDownload ==
    /\ Dispatch /\ active /\ dlQueued
    /\ dlQueued' = FALSE
    /\ pc' = "file"
    /\ UNCHANGED <<progVars, yields, netVars, initQueued, keyQueued, key, saveQueued,
                   delay, fileVars, metaVars, sktpVars, sysVars, envVars>>

(* The first half of updateSktpScreenContent, up to the first request.     *)
UpdateSktpScreenContent ==
    IF session = 0
    THEN /\ UNCHANGED session
         /\ IF screen = "sktp"
            THEN pc' = "session" /\ UNCHANGED keyQueued
            ELSE pc' = AfterQueue /\ keyQueued' = FALSE
    ELSE /\ session' = 1
         /\ pc' = "page" /\ UNCHANGED keyQueued

NoDownload == Dispatch /\ active /\ ~dlQueued

SendKey ==
    /\ NoDownload
    /\ keyQueued \/ (refresh /\ key # 0)
    /\ UpdateSktpScreenContent
    /\ UNCHANGED <<progVars, yields, netVars, initQueued, key, dlQueued, saveQueued,
                   delay, fileVars, metaVars, refresh, skip, timeout, page, msg,
                   sysVars, envVars>>

RefreshDue == NoDownload /\ ~keyQueued /\ refresh /\ key = 0

(* queuedSktpRefreshAllowed.                                               *)
Refresh ==
    /\ RefreshDue
    /\ IF skip + 1 >= timeout
       THEN /\ refresh' = FALSE /\ skip' = 0 /\ timeout' = 0
            /\ UpdateSktpScreenContent
       ELSE /\ skip' = skip + 1
            /\ pc' = AfterQueue
            /\ UNCHANGED <<refresh, timeout, session, keyQueued>>
    /\ UNCHANGED <<progVars, yields, netVars, initQueued, key, dlQueued, saveQueued,
                   delay, fileVars, metaVars, page, msg, sysVars, envVars>>

NothingQueued ==
    /\ Dispatch
    /\ IF active THEN ~(dlQueued \/ keyQueued \/ refresh) ELSE ~initQueued
    /\ pc' = AfterQueue
    /\ UNCHANGED <<progVars, yields, netVars, queueVars, fileVars, metaVars, sktpVars,
                   sysVars, envVars>>
----------------------------------------------------------------------------
(* The answers of the HTTP servers.                                        *)

UpdateEnds == keyQueued' = FALSE /\ pc' = AfterQueue

(* launchSktpSession.                                                      *)
SessionAnswer(ok) ==
    /\ pc = "session"
    /\ IF ok THEN session' = 1 /\ pc' = "page" /\ UNCHANGED keyQueued
             ELSE UpdateEnds /\ UNCHANGED session
    /\ UNCHANGED <<progVars, yields, netVars, initQueued, key, dlQueued, saveQueued,
                   delay, fileVars, metaVars, refresh, skip, timeout, page, msg,
                   sysVars, envVars>>

(* A page, with at most one chunk that acts when the page is rendered: a   *)
(* refresh, the URL or the bytes of a TGA image.  Without an answer none   *)
(* acts: the old content stays, but m_sktpScreenErrorCode keeps it from    *)
(* printSKTPScreen until the next update clears the code and replaces it.  *)
PageAnswer(chunk) ==
    /\ pc = "page"
    /\ page' = chunk
    /\ key' = 0
    /\ UpdateEnds
    /\ UNCHANGED <<progVars, yields, netVars, initQueued, dlQueued, saveQueued,
                   delay, fileVars, metaVars, session, refresh, skip, timeout, msg,
                   sysVars, envVars>>

Chunks == {"none", "refresh", "bytes"} \cup (Images \ offered)

(* parseSKTPDownloadCommand.                                               *)
ParseDownloadCommand(f, save) ==
    /\ path' = f /\ ext' = f /\ saveFlag' = save
    /\ dlQueued' = TRUE
    /\ offered' = offered \cup {f}

(* The answer is the command to download a program.                        *)
DownloadAnswer(d, save) ==
    /\ pc = "page" /\ d \notin offered
    /\ ParseDownloadCommand(d, save)
    /\ savePath' = IF save THEN d ELSE None
    /\ delay' = 0
    /\ page' = "none" /\ key' = 0
    /\ UpdateEnds
    /\ UNCHANGED <<progVars, yields, netVars, initQueued, saveQueued, buf, ready,
                   dlReady, launchAfterSave, session, refresh, skip, timeout, msg,
                   sysVars, card, sent>>

(* The session has expired: a new one is asked for at once, without key.   *)
ExpiredAnswer ==
    /\ pc = "page"
    /\ session' = 0 /\ key' = 0 /\ page' = "none"
    /\ IF screen = "sktp" THEN pc' = "session" /\ UNCHANGED keyQueued
                          ELSE UpdateEnds
    /\ UNCHANGED <<progVars, yields, netVars, initQueued, dlQueued, saveQueued,
                   delay, fileVars, metaVars, refresh, skip, timeout, msg, sysVars,
                   envVars>>

(* getCSDBBinaryContent: the body is received into the buffer itself.      *)
DownloadEnds(ok) ==
    IF ok THEN buf' = path /\ dlReady' = TRUE /\ UNCHANGED msg
          ELSE buf' \in {buf, None} /\ msg' = TRUE /\ UNCHANGED dlReady

FileAnswer(ok) ==
    /\ pc = "file"
    /\ DownloadEnds(ok)
    /\ pc' = AfterQueue
    /\ UNCHANGED <<progVars, yields, netVars, queueVars, metaVars, savePath, ready,
                   launchAfterSave, session, refresh, skip, timeout, page, sysVars,
                   envVars>>

HttpAnswer ==
    \/ \E ok \in BOOLEAN : SessionAnswer(ok) \/ FileAnswer(ok)
    \/ \E chunk \in Chunks : PageAnswer(chunk)
    \/ \E d \in Downloads, save \in BOOLEAN : DownloadAnswer(d, save)
    \/ ExpiredAnswer
----------------------------------------------------------------------------
(* The rest of CKernelMenu::handleNetwork: launch, save, finish, render.   *)

LaunchCheck ==
    /\ pc = "launch"
    /\ pc' = IF active THEN "save" ELSE "render"
    /\ IF active /\ ready
       THEN launch' = ext /\ CleanupDownloadData
       ELSE UNCHANGED <<launch, metaVars, savePath, ready, launchAfterSave,
                        session, msg>>
    /\ UNCHANGED <<prog, running, cartOff, screen, started, yields, netVars,
                   queueVars, buf, dlReady, refresh, skip, timeout, page, sysVars,
                   envVars>>

(* writeFile fails when the path is empty.                                 *)
WriteCard == IF savePath = None THEN card ELSE [card EXCEPT ![savePath] = buf]

Slip_SaveDownload2SD == UNCHANGED saveQueued /\ card' = WriteCard

SaveDownload2SD == saveQueued' = FALSE /\ card' = WriteCard

(* What follows the save, and the key that checkForSaveableDownload drops. *)
SaveCheck ==
    /\ pc = "save" /\ saveQueued
    /\ SaveDownload2SD
    /\ keyQueued' = FALSE
    /\ CASE launchAfterSave ->
                /\ ready' = TRUE /\ launchAfterSave' = FALSE
                /\ UNCHANGED <<metaVars, savePath, session, msg, refresh, skip,
                               timeout>>
         [] ~launchAfterSave /\ running = "m" ->
                /\ refresh' = TRUE /\ skip' = 0 /\ timeout' = SaveRefresh
                /\ CleanupDownloadData
         [] OTHER ->
                UNCHANGED <<metaVars, savePath, session, msg, refresh, skip, timeout,
                            ready, launchAfterSave>>
    /\ pc' = "finish"
    /\ UNCHANGED <<progVars, yields, netVars, initQueued, key, dlQueued, delay,
                   buf, dlReady, page, sysVars, sent, offered>>

NothingToSave ==
    /\ pc = "save" /\ ~saveQueued
    /\ pc' = "finish"
    /\ UNCHANGED <<progVars, yields, netVars, queueVars, fileVars, metaVars, sktpVars,
                   sysVars, envVars>>

Slip_FinishedProgram == ready' = TRUE /\ saveQueued' = (saveQueued \/ saveFlag)

FinishedProgram ==
    IF saveFlag THEN ready' = FALSE /\ saveQueued' = TRUE
                ELSE ready' = TRUE /\ UNCHANGED saveQueued

(* checkForFinishedDownload: an image is drawn at once, a program is saved *)
(* or launched by the next call.                                           *)
FinishCheck ==
    /\ pc = "finish" /\ dlReady
    /\ dlReady' = FALSE
    /\ IF ext \in Images
       THEN saveQueued' = FALSE /\ CleanupDownloadData
       ELSE /\ FinishedProgram
            /\ msg' = TRUE
            /\ UNCHANGED <<metaVars, savePath, launchAfterSave, session>>
    /\ pc' = "render"
    /\ UNCHANGED <<progVars, yields, netVars, initQueued, keyQueued, key, dlQueued,
                   delay, buf, refresh, skip, timeout, page, sysVars, envVars>>

NothingFinished ==
    /\ pc = "finish" /\ ~dlReady
    /\ pc' = "render"
    /\ UNCHANGED <<progVars, yields, netVars, queueVars, fileVars, metaVars, sktpVars,
                   sysVars, envVars>>

PageShown == screen = "sktp" /\ active /\ ~msg

(* renderC64: a message box hides the page; printSKTPScreen acts on the    *)
(* chunks and overwrites them, so that they act once.                      *)
RenderPlain ==
    /\ pc = "render" /\ (~PageShown \/ page = "none")
    /\ pc' = "idle" /\ msg' = FALSE
    /\ UNCHANGED <<progVars, yields, netVars, queueVars, fileVars, metaVars, session,
                   refresh, skip, timeout, page, sysVars, envVars>>

(* enableSktpRefreshTimeout.                                               *)
RenderRefresh(t) ==
    /\ pc = "render" /\ PageShown /\ page = "refresh"
    /\ refresh' = TRUE /\ skip' = 0 /\ timeout' = t
    /\ page' = "none" /\ pc' = "idle"
    /\ UNCHANGED <<progVars, yields, netVars, queueVars, fileVars, metaVars, session,
                   msg, sysVars, envVars>>

(* prepareDownloadOfTGAImage.                                              *)
RenderImageUrl(i, save) ==
    /\ pc = "render" /\ PageShown /\ page = i
    /\ ParseDownloadCommand(i, save)
    /\ delay' = ImageDelay
    /\ page' = "none" /\ pc' = "idle"
    /\ UNCHANGED <<progVars, yields, netVars, initQueued, keyQueued, key, saveQueued,
                   fileVars, session, refresh, skip, timeout, msg, sysVars, card,
                   sent>>

(* updateTGAImageFromSKTPChunk: the buffer of the programs is borrowed.    *)
RenderImageBytes ==
    /\ pc = "render" /\ PageShown /\ page = "bytes"
    /\ buf' = None
    /\ page' = "none" /\ pc' = "idle"
    /\ UNCHANGED <<progVars, yields, netVars, queueVars, metaVars, savePath, ready,
                   dlReady, launchAfterSave, session, refresh, skip, timeout, msg,
                   sysVars, envVars>>

Render ==
    \/ RenderPlain
    \/ \E t \in 1..SaveRefresh : RenderRefresh(t)
    \/ \E i \in Images, save \in BOOLEAN : RenderImageUrl(i, save)
    \/ RenderImageBytes
----------------------------------------------------------------------------
(* main(): the menu, the launched kernels, and the way back.               *)

(* The C64 has run the last speed code of the menu: Run() returns and      *)
(* main() calls the kernel.  Only the launcher serves the network.         *)
LeaveMenu(next) ==
    /\ InMenu /\ launch # NoLaunch
    /\ prog' = next
    /\ running' = IF next = "launcher" THEN "l" ELSE running
    /\ started' = [file |-> launch, data |-> IF launch = FromCard THEN FromCard ELSE buf]
    /\ UNCHANGED <<pc, cartOff, screen, launch, yields, netVars, queueVars, fileVars,
                   metaVars, sktpVars, sysVars, envVars>>

Slip_BackToMenu ==
    /\ prog' = "menu" /\ launch' = NoLaunch
    /\ UNCHANGED <<running, pc, cartOff, screen, started, yields, netVars, queueVars,
                   metaVars, savePath, ready, dlReady, launchAfterSave, sktpVars,
                   reboot, reboots, envVars>>

BackToMenu ==
    /\ prog' = "menu" /\ running' = "m" /\ launch' = NoLaunch
    /\ UNCHANGED <<pc, cartOff, screen, started, yields, netVars, queueVars, metaVars,
                   savePath, ready, dlReady, launchAfterSave, sktpVars, reboot,
                   reboots, envVars>>

(* The button.  MODplay leaves an empty buffer behind.                     *)
LeaveByReset ==
    /\ prog \in {"launcher", "other"} /\ pc = "idle"
    /\ buf' \in IF prog = "other" THEN {buf, None} ELSE {buf}
    /\ BackToMenu
    /\ UNCHANGED returnReq

Slip_ReturnRequired == returnReq

ReturnRequired == returnReq \/ reboot # "no"

(* The launcher polls the network: isReturnToMenuRequired comes first.     *)
LauncherReturns ==
    /\ prog = "launcher" /\ pc = "idle" /\ active /\ ReturnRequired
    /\ returnReq' = FALSE
    /\ BackToMenu
    /\ UNCHANGED buf

LauncherPolls ==
    /\ prog = "launcher" /\ pc = "idle" /\ active /\ ~ReturnRequired
    /\ pc' = "enter"
    /\ UNCHANGED <<progVars, yields, netVars, queueVars, fileVars, metaVars, sktpVars,
                   sysVars, envVars>>

(* The button while the cartridge is off: activateCart, from the FIQ.      *)
ActivateCart ==
    /\ prog = "menu" /\ pc = "idle" /\ cartOff
    /\ cartOff' = FALSE /\ running' = "m"
    /\ UNCHANGED <<prog, pc, screen, launch, started, yields, netVars, queueVars,
                   fileVars, metaVars, sktpVars, sysVars, envVars>>

RebootMenu ==
    /\ prog = "menu" /\ pc = "idle" /\ reboot = "due"
    /\ prog' = "rebooting"
    /\ UNCHANGED <<running, cartOff, screen, launch, started, pc, yields, netVars,
                   queueVars, fileVars, metaVars, sktpVars, sysVars, envVars>>
----------------------------------------------------------------------------
NetStep ==
    \/ EnterQueue \/ YieldLoop \/ YieldReturns
    \/ CountDelay \/ QueuedInit \/ StartDownload \/ SendKey \/ Refresh
    \/ NothingQueued
    \/ HttpAnswer
    \/ LaunchCheck \/ SaveCheck \/ NothingToSave \/ FinishCheck \/ NothingFinished
    \/ Render

Start == \E next \in {"launcher", "other"} : LeaveMenu(next)

Next ==
    \/ MenuFrame \/ MenuRefresh
    \/ NetStep
    \/ WebRequest \/ RebootElapses
    \/ Start \/ LeaveByReset \/ LauncherReturns \/ LauncherPolls
    \/ ActivateCart \/ RebootMenu

Spec == Init /\ [][Next]_vars

(* The C64 keeps asking the menu for screens, and not every time with a    *)
(* key.  Every HTTP request is answered or times out, and the main loop of *)
(* the launcher keeps running.  A server that is asked for a new session   *)
(* and its first page again and again does not answer every time that the  *)
(* session has expired.                                                    *)
SessionLasts == \E chunk \in Chunks : PageAnswer(chunk)

Fairness ==
    /\ SF_vars(IdleFrame) /\ WF_vars(NetStep) /\ SF_vars(SessionLasts)
    /\ WF_vars(LauncherReturns) /\ WF_vars(LauncherPolls)
    /\ WF_vars(RebootElapses) /\ WF_vars(RebootMenu)

FairSpec == Spec /\ Fairness
----------------------------------------------------------------------------
Pcs == {"idle", "enter", "net", "yield", "queue", "session", "page", "file",
        "launch", "save", "finish", "render"}
FileOrNone == Files \cup {None}
Launchable == FileOrNone \cup {FromCard, NoLaunch}

ProgTypeOK ==
    /\ prog \in {"menu", "launcher", "other", "rebooting"} /\ pc \in Pcs
    /\ running \in {"m", "l"} /\ cartOff \in BOOLEAN
    /\ screen \in {"main", "browser", "network", "sktp"}
    /\ launch \in Launchable
    /\ started \in [file : Launchable, data : Launchable]
    /\ yields \in 0..Yields
NetTypeOK ==
    /\ active \in BOOLEAN /\ webEnabled \in BOOLEAN /\ webRunning \in BOOLEAN
    /\ initQueued \in BOOLEAN /\ keyQueued \in BOOLEAN /\ key \in {0, 1}
    /\ dlQueued \in BOOLEAN /\ saveQueued \in BOOLEAN /\ delay \in Nat
FileTypeOK ==
    /\ buf \in FileOrNone /\ ext \in FileOrNone /\ path \in FileOrNone
    /\ savePath \in FileOrNone /\ saveFlag \in BOOLEAN
    /\ ready \in BOOLEAN /\ dlReady \in BOOLEAN /\ launchAfterSave \in BOOLEAN
SktpTypeOK ==
    /\ session \in 0..2 /\ refresh \in BOOLEAN /\ skip \in Nat /\ timeout \in Nat
PageTypeOK == page \in {"none", "refresh", "bytes"} \cup Images /\ msg \in BOOLEAN
SysTypeOK ==
    /\ returnReq \in BOOLEAN /\ reboot \in {"no", "requested", "due"}
    /\ card \in [Files -> FileOrNone \cup {Missing}]
    /\ sent \in [Uploads -> {"no", "save", "launch", "both"}]
    /\ offered \subseteq Downloads \cup Images /\ reboots \in 0..MaxReboots

(* Every variable holds a value the fields of the code can hold.           *)
TypeOK ==
    /\ ProgTypeOK /\ NetTypeOK /\ FileTypeOK
    /\ SktpTypeOK /\ PageTypeOK /\ SysTypeOK
----------------------------------------------------------------------------
(* The handlers of the network decide by m_currentKernelRunning whether an *)
(* upload must make the launcher return and whether a save ends in the     *)
(* menu.  The name is right: "l" means the launcher or a cartridge that is *)
(* off, "m" that the menu (or a kernel without network) runs.              *)
KernelNameTruthful ==
    (running = "l") <=> (prog = "launcher" \/ (prog \in {"menu", "rebooting"} /\ cartOff))

(* An upload to be launched after it was saved is not forgotten by any of  *)
(* the handlers that clear flags: its save is pending or it is ready.      *)
LaunchPromiseKept == launchAfterSave => saveQueued \/ ready

(* What is stored under a file's path on the SD card are that file's bytes. *)
SavedIntact == \A f \in Files : card[f] \in {Missing, f}

(* Without a web server, a download is either saved or launched, never both:*)
(* a pending save (whose end clears the ready flag) does not meet a file    *)
(* that waits to be launched (whose launch clears the path of the save).    *)
SaveOrLaunch == ~(saveQueued /\ ready)

Attended == ~cartOff /\ (prog = "menu" \/ (prog = "launcher" /\ active))

(* A download that was queued is started, a key that was queued is sent or *)
(* dropped with its page, and a requested connection is attempted, unless  *)
(* the user leaves for a kernel without network.                           *)
QueueDrains ==
    /\ dlQueued ~> (~dlQueued \/ ~Attended)
    /\ keyQueued ~> (~keyQueued \/ ~Attended)
    /\ initQueued ~> (~initQueued \/ ~Attended)

(* A file that waits for its save or its launch when the menu runs gets    *)
(* there (or is replaced by a later file).                                  *)
FilesDrain ==
    ((saveQueued \/ ready) /\ prog = "menu")
        ~> (~(saveQueued \/ ready) \/ prog # "menu" \/ cartOff)

(* A requested reboot is carried out from the menu and from the launcher.  *)
RebootHappens == (reboot # "no") ~> (prog \in {"rebooting", "other"})

(* While the menu or the launcher runs, the web server gets its turns      *)
(* again and again.                                                        *)
WebServerServed == (webRunning /\ Attended) ~> (pc = "yield" \/ ~Attended)
============================================================================
