# Sidekick64 in TLA+

This directory holds specifications of the firmware in `src/Source/Firmware`: a bare-metal program
(Circle, no operating system) that runs on the Raspberry Pi of a Sidekick64 cartridge. It plays the
part of C64 expansion cartridges, sound chips and modems, shows a menu on the C64, and, in the
network build, downloads programs, serves an upload page and launches what it received. The
specifications are written from the code of the C64 build with `WITH_NET`; the documents are used
only for what they promise.

1. [The system](#1-the-system)
2. [Plan](#2-plan)
3. [Modules](#3-modules)
4. [Runs](#4-runs)
5. [Bounds](#5-bounds)
6. [Fairness](#6-fairness)
7. [Proofs](#7-proofs)
8. [Known disagreements](#8-known-disagreements)
9. [What is not modelled](#9-what-is-not-modelled)

## 1. The system

There is one thread of control, the *main loop*. It is interrupted by the *FIQ handler* of the kernel
that runs, once in every bus cycle of the C64 (about 1 MHz), and it runs *cooperative tasks* (TCP, the
web server) while it is inside `CScheduler::Yield()` or waits for an HTTP answer. The third actor is the
C64 itself: its program reads and writes the cartridge at any time, and its user presses buttons.

| Part | State it keeps | Operations | Interaction | What is hard | What makes it correct |
|---|---|---|---|---|---|
| Network actions, `CSidekickNet` (net.cpp) | flags of queued actions (connect, key, download, save), one delay for all of them, one buffer for a file's bytes (`prgDataLaunch`), one name, extension and path, SKTP session and refresh timer, reboot request | `handleQueuedNetworkAction`, the `queue…` and `prepare…` functions, `checkForFinishedDownload`, `checkForSaveableDownload`, `saveDownload2SD`, `cleanupDownloadData`, `Initialize` | called by the menu and the launcher in every frame; fills the buffer that the menu launches | one buffer and one set of names for downloads, uploads and picks; flags cleared by the end of another action | bytes and names belong together when a file is saved or launched; every queued action is taken; every finished file is saved or launched; promised launches are kept |
| Web server, `CWebServer` (webserver.cpp) | none of its own | `GetContent`: page, upload, kernel or configuration update | runs in the yields of the main loop and writes the fields of `CSidekickNet` | a request comes at any yield, twice in one frame, in the menu or in the launcher | gets its turns; does not disturb what is pending; a reboot it asks for happens |
| Menu loop, `CKernelMenu` (kernel_menu.cpp) | handshake flags with the FIQ handler, the watchdog's counters, `launchKernel`, the kernel's name, `disableCart` | `Run`, `handleNetwork`, `activateCart`, `deactivateCart`, the launch loop of `mainMenu`, `FIQHandler` | asks the C64 to show a screen (NMI), is asked for one, calls page, queue, checks and renderer in this order | who goes first: key, queue, launch, save, finish, render; a reset at any point of the handshake | the order of a frame's checks; the name of the running kernel is right; the C64 is never handed code that is not there, and never waits for ever |
| Pages and message box (c64screen.cpp) | `menuScreen`, `previousMenuScreen`, `errorMsg`, `errorSticky`, `updateMenu` | `handleC64`, `renderC64`, `setErrorMsg2`, `clearErrorMsg`, `renderErrorMsg` | keys of the user; messages of the network; what the C64 shows | one slot for the message and one for the page under it, set from twenty places | pages change by keys alone; a message that stays has a cause and is removed with it; work begins after its announcement |
| PRG launcher (kernel_launch.cpp, launch.cpp, C64Side/cart.a) | transfer stage, `prgData`, position and part of the transfer | `KernelLaunchRun`, `FIQ_HANDLER`, the loader on the C64 | gives the program to the C64, polls the network, returns to the menu when asked to | two-part transfer in whole pages, C64s that hang, resets in the middle | every byte of the file is at its place; what the transfer overwrites besides is known; a C64 that hangs is reset |
| SwiftLink modem (net.cpp, kernel_launch.cpp) | input and output buffers, AT command, socket, DMA and NMI counters | `handleModemEmulation`, `SocketConnect`, `writeCharsToFrontend`, `readCharFromFrontend`, the register accesses in `FIQ_HANDLER` | FIQ handler writes and reads the buffers, main loop moves them to and from the socket | buffers without locks, a handler that is switched off, an NMI for each byte | characters arrive in order and once; no access is lost; nobody waits for ever |
| Display queue and latch (latch.h, oled.cpp, tft_st7789.cpp) | ring buffer of 2- or 4-bit commands, two counters, `latchD`, position in the frame | `put…Command`, `get…Command`, `prepareOutputLatch…`, `sendFramebuffer…`, `setMultiplePixels` | main loop (or the slide show's handler) fills it, FIQ handler empties it and writes the latch | no lock and no test for full; the handler resets both counters | a FIFO; complete frames are shown; nothing is sent twice |
| SID and FM kernels (kernel_sid.cpp, sound.h) | ring buffer of register writes with their cycles, clocks of C64 and emulation, sample buffer, `renderDone`, emulated chips | `KernelSIDRun`, `KernelSIDFIQHandler`, `putSample`, `getSample` | handler records bus writes, main loop replays them into the chips, the handler plays the samples | producer and consumer of different speed, no test for full, reset of the C64 | each write is replayed in its own cycle, in order; the sound is not late without need |
| EasyFlash, Magic Desk and others (kernel_ef.cpp, crt.cpp, kernel_cart*.cpp) | flash memory, bank and mode registers, EAPI command state, image, changed flag | `eapiReceiveByte`, `initEF`, `writeChanges2CRTFile`, `KernelEFRun` | C64 bus, SD card, power and reset of the C64 | commands byte by byte with a reset in between; saving while it changes | flash commands do what a flash chip does; what the program wrote is saved |
| Freezers (kernel_ar, fc3, kcs, ssnap5, freezemachine, warpspeed) | lines, counters of writes, freeze and button | their `FIQHandler`s, `callbackReset` | button, NMI, C64 bus | the button at any cycle; what the CPU does is concluded from writes in a row | the freezer is there when the NMI vector is fetched, and the memory map does not move under the program before |
| GeoRAM and RAM (kernel_georam, kernel_rkl) | page registers, up to 4 MB RAM, dirty flag | `FIQ_HANDLER`, saving | C64 bus, SD card | saving and size masks | an address maps to one byte |
| Kernal, disk emulation, D64 to EasyFlash, PSID conversion, directories, configuration | tables, directories, settings | loading, converting, parsing | SD card | malformed files | pure functions of their input |
| Sidekick264 and Sidekick20 | as above for other computers | as above | TED and VIC-20 bus | as above | as above |

`PROJECT.json` lists all of them, with the hazards of the code at their lines. Each hazard
names the properties that would catch it, or says why none does.

## 2. Plan

The behaviour that matters most to a user of the network build comes first: what becomes of a
file that was downloaded or uploaded. Then the structures that everything else shares (display queue,
pages), then the places where FIQ handler, main loop and C64 meet without a lock.

| Order | Module | Composes | Question | State |
|---|---|---|---|---|
| 1 | `SidekickNet` | queue, web server, menu loop, launcher as actors over one state | right bytes, right name, nothing forgotten | checked, proved |
| 2 | `CommandFifo`, `DisplayQueue` | abstract queue, and the ring buffer that implements it | FIFO despite interrupts and resets | checked, proved |
| 3 | `MenuScreens` | pages, message box, the frame of the menu loop | who may change the page | checked, proved |
| 4 | `MenuHandshake` | main loop, FIQ handler, menu program of the C64, watchdog | no crash, whole screens, an answer for every request | checked, proved |
| 5 | `PrgLaunch` | launcher's main loop and handler, loader of the C64 | a copy of the file | checked, proved |
| 6 | `ModemLine`, `SwiftLink` | abstract line; C64, handler, main loop, remote host | order, loss, waiting | checked, proved |
| 7 | `FlashChip`, `EasyFlash` | abstract flash memory; EAPI, main loop, power and reset | flash commands, saved images | checked, proved |
| 8 | `SidTimeline`, `SidSound` | abstract time line; handler, emulation, sample buffer | each write in its cycle | checked, proved |
| 9 | `Freezer` | button, CPU cycle by cycle, five handlers | three writes in a row | checked, proved |
| 10 | WiC64 and userport modem, GeoRAM | | lengths, page registers | not modelled, see the last section |

The abstract specifications are small: a FIFO of display commands (`CommandFifo`), a line of characters
(`ModemLine`), a flash memory (`FlashChip`), a time line of register writes (`SidTimeline`). The
theorems are those whose argument does not depend on the size of a buffer or the
number of files: refinements of these, and properties of flags that many handlers set and clear.

## 3. Modules

`Slip_…` operators in the modules are not part of the models. Each is the definition that follows it with one plausible
mistake, and is listed under "mutants" in `PROJECT.json`: with it in place of the definition, TLC
finds the property violated. `MC…` modules give an instance its files, programs or scripts.

### SidekickNet

State and actions follow `CSidekickNet` field by field; every variable names its field. Files are
members of sets (`Uploads`, `Downloads`, `Images`, `Picks`): the buffer, the extension and the path
hold *the file they were last set for*, so that bytes and name are told apart, and nothing else.

* `MenuFrame` is `handleNetwork(true)` up to the queue: `handleC64` with any key of the user.
* `EnterQueue`, `YieldLoop`, `YieldReturns`: the head of `handleQueuedNetworkAction`, one turn of
  the web server per `yield`. While `pc = "yield"`, and while an HTTP client waits, `WebRequest` may
  happen: `Upload` (three modes), `OpenPage`, `RequestReboot`, each one whole call of `GetContent`'s
  branch. Tasks are cooperative, so a request is one step.
* `CountDelay`, `QueuedInit`, `StartDownload`, `SendKey`, `Refresh`, `NothingQueued`: the branches of
  `handleQueuedNetworkAction`. Requests to servers are split at the point where the client waits;
  answers (`SessionAnswer`, `PageAnswer`, `DownloadAnswer`, `ExpiredAnswer`, `FileAnswer`) are chosen
  freely, failures included.
* `LaunchCheck`, `SaveCheck`, `FinishCheck`, `Render…`: the rest of `handleNetwork`, in its order, each
  with everything it calls (`saveDownload2SD`, `cleanupDownloadData`, the refresh timer).
* `LeaveMenu`, `LeaveByReset`, `LauncherReturns`, `LauncherPolls`, `ActivateCart`, `RebootMenu`:
  `mainMenu`'s loop and the way the launcher uses the network.

Simplifications: `handleNetwork(false)` is modelled for the reboot countdown; in a frame of the
cartridge turned off, the yields of that frame still run. The key `x` of the network page, the modem
keys and the system information page are left out.

### DisplayQueue and CommandFifo

A command is its number, so the cell of the ring buffer tells *which* command it holds. A put is
three steps, since the FIQ handler may come between the load of `i2cBufferCountCur`, the store of the
command and the store of the counter; the handler is one step, except that it may look for another
command after one that changes no line (`fiq = "more"`). The time between two commands
(`latchDelayOut`) is left open. `display` chooses one of three programs: the SID kernels with an OLED (turns by
`renderDone`), the SID kernels with an ST7789 (no turns), and the slide show of the EasyFlash
kernel (the handler draws and sends). When the slide show draws is left open: in the code only while the cartridge is
disabled (`ef.reg2 == 4`, as is sending) and no pause is counted (`pauseSlideShow`, kernel_ef.cpp:2593-2620). `Reset` is `goto startHereAfterReset`: `initLatch` clears the
counters, `renderDone` and the position in the frame keep their values.

`CommandFifo` is the queue that latch.h promises: commands leave in order, each once, or all that wait
are thrown away by a reset. `DisplayQueue` implements it under the identity mapping of `put` and `got`.

### MenuScreens

`menu` is the record of the four variables of the message box. `SetErrorMsg2`, `ClearErrorMsg`,
`RenderErrorMsg` and `RenderC64` are the functions of c64screen.cpp. A frame is: a key
(`HandleC64`, one action per kind of key) or a refresh; turns of the web server; one branch of the
queue; the checks `LaunchCheck`, `SaveCheck`, `FinishCheck` in the order of `NextCheck`; `EndFrame` or
`EndRefresh`, which draw. `shown` is what the C64 then shows: a message page draws nothing itself, so the
box lies over the page drawn last.

`Initialize(o)` has one outcome per way a connection attempt may end, with the messages each of them
raises; the network's failures are abstracted to `Failures`. Files are told apart only as saved, launched or
image, as `SidekickNet` has their details. Left out: the settings' page keys beyond their
message, the modem keys, `x`, timed SKTP refreshes, launching other kernels, the colours' fading.

### MenuHandshake

Three actors under one state: the FIQ handler (`ResetNoticed`, `RaiseNMI`, `CountTimeOut`), the menu program on the C64 and
the main loop (`StartWork`, `Draw`, `Finish`, `Refresh`, `Rendered`, `TimeOutReset`, `BootReset`, `Launch`, `Return`).
`c64` is where the C64's program is: it asks (`Ask`, a read of $9e01 or $9e02), waits for the NMI, calls the code
at $a000, executes it, and goes on to the next request; before the menu runs from RAM it
executes ROM that only a working handler shows (`Served`). `code` says what is stored at $a000: nothing but
an RTS, the character set, or the differences of a screen to the one before, which the main loop
believes to be on the C64 (`c64screenPrev`). A C64 that fetches from a silent cartridge is `"lost"`: what it then
does is unknown, and only the watchdog, the boot reset or the user brings it back. Reset and
release of the button come at any time but within the microseconds in which a screen's code is written.

Left out: the commands of the VDC, SID and C128 pages (4 to 14), the time between NMI and code, freezing,
reset pulses shorter than the handler's ten cycles, the cartridge switched off (that is in `SidekickNet`), the LEDs.

### PrgLaunch

The loader on the C64 (cart.a), the handler's registers and the main loop's stages. Addresses and bytes
are numbers; a byte is its position in the file, so that a byte at the wrong address, or one of behind the file, is seen.
`PrgSizeBelow`, `PrgSizeAbove`, `PagesOf` are the arithmetic of `KernelLaunchRun` with its unsigned
difference; `latched` is the byte prepared for the next read, which survives a relaunch.
The loader's own writes are marked with a value of their own (`Code`): `InstallLoader` is its cold and warm start, which clear variables and
copy its loops to $033C and $1000, `StartProgram` the setting of BASIC's variables. The upper part is fetched into the buffer at
$2000 (`FetchUpper`) and copied to its place with the ROMs off (`CopyUpper`), before the lower part may overwrite buffer and loops.
The C64 may hang while it reads the ROM or behind that (`Hang`), be reset for a short time (`ShortReset`), or be sent to the menu to load
another program (`Relaunch`).

Two limits: a C64 that has not read a single byte of the ROM, or all that the main loop waits for (32), is not noticed by it; and after the modem has been unlocked a short
reset leads to BASIC, since the handler does not show the ROM any more. Both are in the model as the code has them. `ProgramsAssumption` leaves out the programs that the loader cannot load: at `Split` exactly, with a last
page that runs past the end of memory, with a start below $0801, or above `Split` and with the I/O area in their way (section 8).

### SwiftLink and ModemLine

Keys of the user and bytes of the remote host are numbered. The handler's accesses (`Type`, `EnableReceive`, `ReadStatus`,
`ReadData`) may come at any time while it is connected and the C64 is not halted. The main loop is cut where the handler may come between:
leaving for the network (handler off), the modem emulation, the attempt to receive, switching the handler on, offering the
next byte, and the NMI's counters. Without a connection the main loop reads the buffer with the
handler on, in two halves (`Silent`, `ResetBuffer`). The web server's upload and the reset button end the launcher;
the menu serves the network too (`MenuNet`), a new launch starts the registers afresh but not `swiftLinkReleaseDMA`, with a byte that was
on offer being lost (`Launch`). It may come while a connection is still open, since the menu does not serve the modem on WLAN while an action is queued.

`ModemLine` is the promise of the output buffer: a queue that loses nothing while a connection is open, and without one only
a character that finds it empty. The mapping takes the buffer as empty between the halves of
`readCharFromFrontend`, since everything in it is about to be thrown away.

### EasyFlash and FlashChip

A byte stands for each half of a bank, as a set of bits, so that writing (clears bits) and erasing (sets them)
are what they are on a chip. `EapiByte` is `eapiReceiveByte`: the first byte of a command, or one of those
that follow. `PressReset`, `HoldReset`, `SwitchOff`, `SwitchOn` are the C64's; `initEF` is called by the handler, if it is connected.
The main loop saves when the C64 is off and when the kernel is left, chip by chip (`Patch`), then creates the file
and writes it. `late` remembers the chips that a program changed after their bytes were taken.

`FlashChip` is what a program may expect between two launches. Reply and memory map identically, and a program runs while the handler is
connected.

### SidSound and SidTimeline

The handler's cycle is one action of three (a write to a sound chip, a read, anything else, which plays samples); the main loop
has an action for each stretch between two looks at what the handler changes. A write is its cycle. `Succ` is `RING_SIZE - 1` used as a
mask on a size that is no power of two: 14 of its bits survive, so 16384 of 81920 entries are used. Instructions
access a sound chip in as many cycles in a row as `LongestRow` says. `Lag` is the one assumption about time: the
main loop is fast enough to stay that close behind the C64 once it has begun; before, the ring may overflow, and
is cleared.

`SidTimeline` says what the rest is for: the emulated clock never passes a write that is due, and a write is heard in its own cycle.

### Freezer

A step is one cycle of the C64's CPU with the handler's reaction. The CPU executes any sequence of reads and writes with at most two
writes in a row, except for the three pushes of an interrupt; an NMI that comes in the last two cycles of an
instruction waits for the next. An access is one of a few kinds: the cartridge's ROM, its RAM, its registers, anything else. The handlers are functions from state and access to possible states, with the
early returns of the code: what counts as a write, when the button is seen, and what three writes in a row switch on differ from
cartridge to cartridge. `callbackReset` is two steps, since the handler may run between them; the handler of Freeze Machine
and Freeze Frame, two images for one kernel, calls it itself (`ReleaseReset`).

## 4. Runs

| Run | Shows | States |
|---|---|---|
| `SidekickNet_live` | One program and one image from SKTP pages on WLAN. Types; a pending save never meets a pending launch (`SaveOrLaunch`); whatever is queued is taken (`QueueDrains`) and every finished file is saved or launched (`FilesDrain`) although keys, pages and answers go on. | 562 thousand |
| `SidekickNet_uploads` | Two uploads in all modes and the upload page, in menu, launcher, with the cartridge off, and during HTTP requests: the name of the running kernel is right (`KernelNameTruthful`), an upload that is to be launched after its save is not forgotten (`LaunchPromiseKept`), what is stored under a name are that file's bytes (`SavedIntact`). | 3.4 million |
| `SidekickNet_lan` | On a wired network the web server gets its turns, also while actions are queued (`WebServerServed`), and a reboot asked for from menu or launcher, once or again, happens (`RebootHappens`). | 328 thousand |
| `DisplayQueue_turns` | OLED and slide show: the ring buffer is a FIFO (`InOrder`), main loop and handler keep their turns (`TurnsTaken`), a complete frame is shown (`FrameShown`) and all that is drawn leaves (`CommandsLeave`), with resets in the middle of a frame. | 51 thousand |
| `MenuScreens_pages` | All outcomes of a connection, files, images and a reboot: a frame leaves the user on the page his key leads to (`PageFollowsKey`), a message that stays has a cause (`StickyHasCause`), connecting and saving begin when their message is shown (`WorkAnnounced`). | 263 thousand |
| `MenuHandshake_screens` | Requests, screens, refreshes by the network, two resets at any time, a launch and the return: the C64 never fetches from a silent cartridge unless a refresh or a reset during a network action came between (`NoCrash`), its screen is whole when it takes keys (`ScreenWhole`), a launch waits for the last screen (`LaunchAfterCode`), a waiting menu is answered or reset (`MenuAnswered`). | 435 thousand |
| `PrgLaunch_loads` | Programs below, up to, across and above $A000, of whole pages and not, with hangs, short resets and another program after the first: all bytes at their places (`ProgramLoaded`); besides, only the rest of the last page, what loader and C64 use for themselves, and as many pages at $2000 as the part above $A000 has are overwritten (`NothingElseWritten`); a C64 that hangs before it has read enough is reset until the program runs (`HungIsReset`). | 45 thousand |
| `SwiftLink_modem` | Two scripts (dial and hang up, a wrong command and then dial), three bytes of the host of which one is zero: what the host sends is shown in order and once, and while connected only a zero or a byte on offer at a new launch is lost (`ScreenTrue`), the output buffer is a `ModemLine` (`LineSpec`), no access meets a handler that is off (`NoAccessLost`), each halt of the C64 ends (`HaltEnds`), each byte offered is fetched (`ByteFetched`). | 739 thousand |
| `EasyFlash_saves` | Three commands with their bytes in any order of events, two launches from file or network, power and reset at any time: `FlashChip` is implemented (`ChipSpec`), changes are in the file or still marked (`OnlyLateLost`), with the C64 off they get saved (`SavedWhenOff`). | 533 thousand |
| `EasyFlash_net` | *Violation* of `NameIsDummy`: the name of an image from the network is not only "used to try to load a tga file" (net.cpp:858); when the program changes its flash memory, `writeChanges2CRTFile` opens that name, and the panic halts the Pi. | |
| `Freezer_freeze` | Six freezers, three presses of button or reset in any cycle: the NMI that the button causes finds the ROM of the freezer at its vector with five of them (`FrozenAtVector`), with the Final Cartridge III GAME low, which is that ROM if EXROM is high (`GameLowAtVector`). Beginning and end of the freezing move the memory map only while the CPU pushes its state, with KCS and Super Snapshot 5 also in the cycle that sees the button (`Unmoved`). | 171 thousand |
| `SidSound_ontime` | Writes in any cycles, a reset, samples at two in seven cycles: `SidTimeline` is implemented (`TimelineSpec`), and the sound gets later only by turns that found no sample (`Backlog`). | 6.7 million |

Deadlock is checked in `SwiftLink_modem` and `Freezer_freeze`. Elsewhere
(`CHECK_DEADLOCK FALSE`) something really ends: the reboot (`SidekickNet`, `MenuScreens`), a panic (`EasyFlash`), a
program that has been loaded (`PrgLaunch`), a lost C64 whose user has no resets left (`MenuHandshake`), and the bounds
on cycles and commands (`SidSound`, `DisplayQueue`).

## 5. Bounds

| Constant | Value | Why it is enough |
|---|---|---|
| `Uploads`, `Downloads`, `Images`, `Picks` | 0 to 2 of each, each used once | the fields hold one file, so two of them show every mix-up; a third can only replace what a second has replaced |
| `Yields` | 1 or 2 (code: 3, and 100 or 25 on WLAN) | one turn for each request that matters, two for two requests in one frame; with 1 they come in consecutive frames or while a client waits |
| `ImageDelay` | 2 and 4 | any positive delay makes the queue wait some frames |
| `SaveRefresh` | 1 and 2 | the timer passes through waiting and due |
| `MaxReboots`, `Countdown` | 0 to 2; 2 | no request, one, and a second that starts the three seconds anew; a countdown of more than one message (the code shows 4) |
| `MaxFiles` | 2 | a file that arrives while another is pending |
| `Size`, `Frame`, `Batch`, `Slack` (`DisplayQueue`) | 8, 5, 3, 3 | a frame and a batch smaller than the buffer, as in the code (65536 entries; a frame of the OLED takes about 30,750, an operation of the ST7789 at most 850, and 1024 free entries are waited for); the counters wrap in the middle of a frame |
| `MaxCommands`, `MaxResets` (`DisplayQueue`) | 15, 2 | three frames with resets: more than once around the buffer |
| `TimeOut` (`MenuHandshake`) | 1 (code: 160000) | the counter passes through counting and elapsed; how long it takes is not told apart |
| `MaxResets`, `MaxRefreshes`, `MaxLaunches` (`MenuHandshake`) | 2, 3, 1 | a reset during the recovery from a reset, refreshes before, during and after it, a launch and the return |
| `Page`, `Split`, `Top` | 2, 10, 16 (code: 256, 40960, 65536) | programs of a part of a page, of whole pages, that end at, before and behind `Split`, with the two bytes of the address deciding about a page more |
| `Low`, `Loader`, `Buffer`, `IO` | 2, 2 and 3, 4, 15 (code: $0801, the loop at $1000 and two bytes of BASIC memory, $2000, $D000-$DFFF) | programs over the loop and over the buffer, and one that begins above the buffer and still uses it |
| `Enough`, `MaxResets`, `MaxHangs` (`PrgLaunch`) | 2, 2, 2 | the ROM is read once, but not enough; hang, and hang again after the reset |
| `Scripts`, `MaxRemote`, `NmiDelay`, `KeepLow`, `MaxLaunches` (`SwiftLink`) | two, 3, 2, 1, 2 | a connection with data in both directions, `+++`, and one after a wrong command; counters of more than one turn; an upload that ends the first launch |
| `Banks`, `SectorBanks`, `Bits`, `Chips` | 2, 2, 1, 3 of 4 | a sector of more than one bank, an unaligned address, an address behind the end, a half that the file lacks; bits are independent |
| `MaxCommands`, `MaxLaunches` (`EasyFlash`) | 3 (2), 2 | changes before, during and after a save; an image loaded over another |
| `MaxPresses` (`Freezer`) | 3 | button, reset and button again |
| `Ring`, `Lag`, `Batch`, `Slack` (`SidSound`) | 5, 3, 3, 1 (code: 16384, not given, 32, 20) | the ring wraps, before the start it overflows; batches end at a sample, a write, and the clock |
| `Clock`, `Rate`, `SampleRing` | 7, 2, 4 (code: 985248, 44100, 16384) | samples after three and four cycles, as the rounding has it; the sample ring wraps |
| `LongestRow` | 2 (code: 4, an instruction that reads, writes back and writes) | a sample is longer than a row and the cycle after it, as it is in the code, by far (22 cycles) |
| `MaxCycles`, `MaxResets` (`SidSound`) | 8, 1 | more than once around the ring, before and after a restart |

`FileSymmetry` is used only in a run of invariants, where files of one kind may be exchanged.

## 6. Fairness

* `SidekickNet`: `SF(IdleFrame)`, the C64 program of the menu keeps asking for screens and the user does not
  press a key every time; `WF(NetStep)`, the main loop goes on and every request is answered or
  fails by its timeout; `SF(SessionLasts)`, a server that is asked again and again does
  not answer *every* time that the session has just expired (`updateSktpScreenContent` would call itself
  for ever); `WF` of the launcher's polling, of the countdown and of the reboot, all of them plain loops
  over a timer. Nothing is assumed of users, browsers and the button.
* `DisplayQueue`: `WF(Handler)`, the bus cycles come whatever the main loop does; `SF(Program)`, what is
  interrupted goes on in between, since a handler ends before the cycle does.
* `MenuHandshake`: `WF` of the handler's NMI and its counting, of the C64's program, of the main loop, each of which goes on
  by itself; `WF(ReleaseReset)`, nobody holds the button for ever. Neither resets nor refreshes have to come or to stop.
* `PrgLaunch`: `WF` of the C64's reads and of the main loop's stages. Nobody has to press a button.
* `SwiftLink`: `WF(MainLoop)`, and `WF(NmiHandler)`, the terminal program serves its NMI. Nobody has to type, and the
  remote host neither has to send nor to close: the waiting for it is an exception in the properties.
* `EasyFlash`: `WF(MainLoop)`. Nobody has to switch the C64 on or off.
* `MenuScreens`, `SidSound` and `Freezer` have invariants and step properties only.

## 7. Proofs

A theorem holds for every value of the constants that meets the named assumptions of its module
(`ASSUME …Assumption`). Each component with theorems has a module `…_proofs` of its own; the two cartridges whose
handlers race with the C64, `SwiftLink` and `Freezer`, share `Cartridges_proofs`, and the names in `Freezer` that every module has
carry a prefix for that.

| Theorem | Says | Argument |
|---|---|---|
| `TypeCorrect` | `[]TypeOK` of `SidekickNet` | one lemma for each group of variables, a step per action |
| `KernelNameIsTruthful` | `[]KernelNameTruthful` | strengthened by where the cartridge may be off: only in the menu or its reboot |
| `LaunchPromiseIsKept` | `[]LaunchPromiseKept` | inductive as it stands: every handler that clears `saveQueued` or `ready` clears the promise or keeps the other |
| `UploadsSavedIntact` | `[]SavedIntact` if there are only uploads | inductive invariant (`SavedIInv`): a pending save has the path of the file in the buffer or none, unless the upload page was opened over it (which then takes the path away); the save comes before the next launch check, nothing is downloaded, and nothing is pending without a connection |
| `OneAtATimeSavedIntact` | `[]SavedIntact` for uploads, downloads, images and picked programs together, as long as `OneAtATime` holds of each step | `FilesIInv`: a file is queued, asked for, downloaded or to be saved, never two of these (`OneFile`); a download that is to be saved has its own path or has lost it (`DownloadMatches`); the checks of a frame come in an order in which no bytes are left where the next step overwrites them, also not by an image of a page behind the message that a file is being saved (`CheckPlaces`) |
| `LaunchedIsIntact` | a started kernel has the bytes of the file it was started for, as long as `Undisturbed` holds of each step | `LaunchIInv`: a download on its way excludes a program to be launched (`OneDownload`); the name that decides what is launched is that of the bytes in the buffer, or is gone (`NameOfBytes`); a chosen program whose bytes the web server replaced is itself replaced by the launch check before the menu can be left (`ChosenBytes`) |
| `DownloadsSavedOrLaunched` | `[]SaveOrLaunch` if no file and no page request comes to the web server | inductive invariant: the property, and that no save is pending where a finished download is looked at (`SaveCheck` comes just before) |
| `DisplayTypeCorrect` | `[]TypeOK` of `DisplayQueue` | a step per action |
| `OneRaceBreaksFifo` | the ring buffer implements `CommandFifo` for all three users if the handler never sets the counters to 0 between the load and the store of a put (`Uncut`) | `FifoInv`: the entries between the counters hold the numbers `got+1 .. put` in order; the number of queued commands is `put - got`; a put that is under way has loaded the current counter; what the ST7789 queues for one sprite fits, because nothing is behind it (`TftRoom`) |
| `QueueIsFifo` | the same without that condition if no user is `"tft"` | the turns of both other programs keep the reset of the counters away from a put (`TurnsAreUncut`) |
| `TurnsAreKept` | `[]TurnsTaken` under the same assumption | on top of the invariant of `QueueIsFifo`: while a frame is sent `put = got + sent`, because the queue was empty when the frame began, so that a complete frame is not empty |
| `FrameFindsQueueEmpty` | no frame waits for a queue in which commands were left (same assumption) | on top of the invariant of `QueueIsFifo`: the handler ends its turn exactly when it has emptied the queue, and only a frame's turn fills it |
| `MenuTypeCorrect` | `[]TypeOK` of `MenuScreens` | lemmas on what the message box's functions return |
| `StickyHasItsCause` | `[]StickyHasCause` | inductive with the types: who takes a cause away removes the message (`CleanupClears`, `InitializeCause`), who makes a message stay has its cause |
| `PagesFollowKeys` | `[]PageFollowsKey` | inductive invariant `PageIInv`: during a frame the page *under* the message is already the one the key leads to (`KeyPending`), and wherever the network may still raise a message no other has been raised (`MessageAlone`), so that the message page is never saved as the page to return to. The steps of a frame are five lemmas: it begins, the menu stays, is cleared, a message is raised, the frame ends |
| `LongWorkIsAnnounced` | `[]WorkAnnounced` | inductive invariant `WorkIInv` on top of `PageIInv`: a queued connection attempt passes its frame of delay and its drawing before it runs; a download ends in a frame that is no refresh, which would draw twice |
| `HandshakeTypeCorrect` | `[]TypeOK` of `MenuHandshake` | the types in four groups, an action at a time; with it that a kernel that is chosen has been counted (`LaunchCounted`) |
| `LaunchWaitsForCode` | `LaunchAfterCode` | `CodeIInv`: while nothing is drawn and all code is said to be executed there is none at $a000, and a C64 that executes has some |
| `NoFetchFromSilence` | `[]NoCrash` | `HandshakeIInv`: as long as nothing has disturbed the handshake, the place of the C64 in its program determines where the main loop may be and which flags are set (`TurnsKept`) and what is at $a000 (`ScreenKept`); a lost C64 means a disturbance |
| `ScreensAreWhole` | `[]ScreenWhole` | from the same invariant: differences are executed on top of the screen they were computed from, because the answer to a request comes before the next request |
| `WaitingIsSeen` | a menu that waits, with the watchdog set, is seen by somebody who can act | `SilentWithWork`: the handler is silent only while there is a request for the main loop; with `HandshakeIInv` and the types |
| `ProgramIsLoaded` | `[]ProgramLoaded` | `LoadIInv`: the handler's position in the file is the loader's position in memory (`UpperIInv`, `LowerIInv`), the byte that waits on the bus is the one at that position (`LatchIInv`), and what has been passed is filled (`CopyIInv`): first the buffer (`Buffered`), then the upper part, then the lower part (`Right`), which neither reaches nor needs the others any more. `Parts`, `PartsFit` and `PagesHold` are the arithmetic of the two parts and their pages |
| `NothingElseIsWritten` | `[]NothingElseWritten` | a part of `LoadIInv` (`MemIInv`): every address written, by this transfer or by one that a reset has cut off, is `Allowed` |
| `LoaderTypeCorrect`, `HungIsWatched` | `[]TypeOK` of `PrgLaunch`; a C64 that got stuck after its first reads and before the last meets the condition of `SeeRead` or `ResetAgain` | `WatchIInv` on top of `LoadIInv`: who boots has read too little, and only a running program has the cartridge off |
| `HandlerLeavesHalted` | `NoAccessLost` | `HaltIInv`: with the network not being served, a request to release the C64 means that it is halted |
| `HaltsAreReleased` | `dma => releaseDMA` | inductive as it stands: the release clears both flags because it finds both |
| `BufferImplementsLine` | `LineSpec`: `SwiftLink` implements `ModemLine` | step simulation; the buffer between hanging up and its reset counts as empty (`Waiting`), and there is no connection then |
| `ModemTypeCorrect` | `[]TypeOK` of `SwiftLink` | the types in four groups (`TypesAreParts`), an action at a time; what a buffer holds came out of the script or from the host |
| `ScreenIsTrue` | `[]ScreenTrue` | `ScreenIInv`: what is shown, the byte on offer, the buffer and the wire, one behind the other, ascend (`OrderIInv`), and nothing that was sent over this connection is missing from them but zeros and what a new launch has dropped (`Known`, `Offered`). The lemmas on ascending sequences (`ConcatAscending`, `AppendBytes`, `HeadBytes`) carry a byte from one to the next |
| `FreezerTypeCorrect` | `[]FreezerTypeOK` | part of the invariant of the next |
| `FreezerIsAtVector`, `GameIsLowAtVector` | `[]FrozenAtVector`, `[]GameLowAtVector` | `HandlerFacts` is what the five handlers have in common: a read resets the counter or leaves it, only three writes end the freezing. `FreezeIInv`: while the freezing is under way at most two of the writes counted are the program's (`WritesCounted`), because a counter that is not reset by every read is younger than the edge of NMI, and the pushes after them are three |
| `ProgramIsUnmoved` | `Unmoved` | from the same invariant: a cycle of the program never is the third write; the button only moves the map with KCS and Super Snapshot 5 |
| `FlashTypeCorrect` | `[]TypeOK` of `EasyFlash` | with it that commands only have the bytes they have, and that a file lacks its contents only while it is written (`TypeIInv`) |
| `OnlyLateWritesLost` | `[]OnlyLateLost` | `SaveIInv`: while the image is saved each chip that has been taken agrees with the memory or was changed since, and the mark is cleared only after the whole file is written |
| `EapiImplementsChip` | `ChipSpec`: `EasyFlash` implements `FlashChip` | step simulation: the steps of the main loop and the bytes of an unfinished command are stutters, the last byte is the operation of the chip |
| `SoundTypeCorrect` | `[]TypeOK` of `SidSound` | a step per action; what a turn emulates is the least of the limits that apply, but at least one cycle |
| `SoundImplementsTimeline` | `TimelineSpec`: `SidSound` implements `SidTimeline` | `RingIInv`: once emulation has started, what waits in the ring lies in different cycles, in order, all after the emulated clock and not more than `Lag` after it, so that the ring never fills (`Lag + 2 <= Ring`); a turn never goes past the first of them (`ClockIInv`, `QueueIInv`) |
| `BacklogBounded` | `[]Backlog` | a sample that is stored belongs to a cycle that has been emulated (`StoredIInv`), and each sample up to the last cycle without an access to a sound chip has had its turn (`TurnsIInv`); a row of accesses and the cycle after it (`RowIsShort`) are shorter than the time between two samples |

What the assumptions leave out is left out because the code does something else there:

* `UploadsSavedIntact`, `DownloadsSavedOrLaunched`: without their assumptions two download commands, and uploads in both
  modes, violate the properties (section 8). `OneAtATimeSavedIntact` says how far the trouble goes: `OneAtATime` allows every file
  and every mode, but no upload, request, pick or start of a kernel without network while a download is on its way, and none but
  uploads while a save is pending.
* `LaunchedIsIntact`: `Undisturbed` names the users of the one buffer. TLC finds a wrong launch when any of them is let through:
  an upload that is only stored after another program was chosen, a download, a picked program or an image of a page while a program is to be
  launched, and a stay in MODplay with an upload pending (the opened upload page alone does no harm without a download).
* `QueueIsFifo` and `TurnsAreKept`, which rests on its invariant: the ST7789 (section 8). `OneRaceBreaksFifo` includes it, with the
  assumption `TftFits` that the commands of a sprite fit into the buffer (code: 684 and 846 of 1024).
* `ProgramsAssumption`: a program at `Split` exactly, one whose last page ends behind the memory, one below $0801, and one above
  `Split` that meets the I/O area (section 8).
  `MemoryAssumption` has `Top <= 256 * Page`, since the number of pages is one byte.
* `SizesAssumption` of `SidSound` bounds `Lag`: the emulation keeps up with the C64, which the Pi must do for any sound at all.
  `RatesAssumption` has a sample longer than `LongestRow` and the cycle after it (code: 22 cycles, and 5).

Only model-checked are the liveness properties (`QueueDrains`, `FilesDrain`, `WebServerServed`, `RebootHappens`,
`FrameShown`, `CommandsLeave`, `MenuAnswered`, `HungIsReset`, `HaltEnds`, `ByteFetched`, `SavedWhenOff`), which rest on
fairness, out of the reach of the prover. The theorems `FrameFindsQueueEmpty`, `WaitingIsSeen`, `HaltsAreReleased` and `HungIsWatched`
prove what four of them rest on for safety: in each state in which the property waits, a step that helps has its condition.
Every other property of a passing run has its theorem. The type invariants of `PrgLaunch`, `SwiftLink`, `Freezer` and `SidSound` are proved
and not among the properties of their runs.

## 8. Known disagreements

What the models show to differ from a document, a comment or the evident purpose. The first is checked by a run of its own
(`EasyFlash_net`); the others were found by earlier instances of the modules, or while reading, and the properties of the
passing runs name them as their exceptions or do not reach them.

* **An image from the network that is changed halts the Pi** (net.cpp:858 calls its name a dummy for a .tga file;
  kernel_ef.cpp opens it to write the changes back).
* **The Final Cartridge III in 16k**: the comment in kernel_fc3.cpp:421 has it go to Ultimax mode, the code pulls GAME low only (line 424). If
  the cartridge's ROMs are in the memory map when the button is pressed EXROM is low, the mode is 16k, and the NMI goes through the vector of the KERNAL.
  `GameLowAtVector` says what holds of both.
* **KCS and Super Snapshot 5 are in Ultimax mode at once**: the comments in kernel_kcs.cpp:390 and kernel_ssnap5.cpp:397 have them go there "once
  the CPU is ready", but `kcsConfig( 2 )` (line 379) and `ss5Config( 0 )` (line 386) do it when the button is seen, and the
  program goes on without most of its memory until its instruction ends. `Unmoved` has it as its exception.
* **On WLAN the web server starves while the launcher runs** if an upload waits to be saved: it blocks every yield (net.cpp:945), and the menu
  that would save it is not there. README_network.md:217 promises the upload page also then.
* **A second upload between the choice of the kernel and its start replaces the bytes** (net.cpp:939; README_network.md:110).
* **Opening the upload page right after an upload empties the path of the save that is pending** (`cleanupDownloadData`, net.cpp:1142).
* **Two download commands**: the bytes of the first are stored under the path of the second (net.cpp:1674; README_network.md:169). `SavedIntact`
  holds for uploads, and for all files that come one at a time (`OneAtATimeSavedIntact`); the run of downloads does not check it.
* **An image in a page overwrites a program that is to be launched**: `updateTGAImageFromSKTPChunk` unpacks it into the buffer of the
  programs (net.cpp:1824), also in the frame in which an upload was saved and waits to be launched by the next. `LaunchedIsIntact`
  proves that this, the two above and their like are the only ways to start the wrong bytes.
* **After a failed connection on boot** its message holds the main menu, and the key `c` on the network page that is shown is taken by
  the main menu (c64screen.cpp:2950; README_network.md:59).
* **Two messages in one frame**: the second saves the message page as the page to go back to (c64screen.cpp:2871).
* **ST7789**: the handler sets both counters to 0 between the main loop's load and store, and everything since the buffer's start is sent
  again (latch.h:308). `InOrder` is checked and proved for the OLED and the slide show; for the ST7789 it is proved that nothing else
  breaks it (`OneRaceBreaksFifo`).
* **A program at $A000 exactly** has an empty part below (kernel_launch.cpp:321), and the loader, which tests only the upper part for being
  empty, counts its pages from 0: it goes once through the whole memory (`C64Side/cart.a`). **A program that crosses $A000 and ends in the
  last two bytes of memory** gets a page too much there, since its upper part is counted with the two bytes of the load address
  (kernel_launch.cpp:327), and the loader goes on in the zero page. **A program below $0801** may overwrite
  the loop at $033C that loads it, or be overwritten when the variables of BASIC are set. **A program above $A000 that meets $D000-$DFFF** is stored by a loop that has the I/O area
  there. `PrgLaunch` assumes these four away (`ProgramsAssumption`).
* **The part above $A000 goes through $2000**: if the program begins higher, memory below it is overwritten, which a reader of the load
  address would not expect. `NothingElseWritten` names it.
* **A C64 that gets stuck after it has read 32 bytes of the ROM** is not reset, nor is one that has read none (kernel_launch.cpp:440).
* **WiC64 commands without payload** (length 4): the state stays at 4 instead of 5, "end of payload reached" (kernel_launch.cpp:862), and
  the next byte counts from 65535 on. Read, not modelled.

`PageFollowsKey` has three exceptions: a message that stays holds its page, the countdown of a
reboot raises a message each second over the last one, and a key that raises a message itself
may meet a second one.

## 9. What is not modelled

* *Cycles.* The bus protocols inside a cycle, the time a handler takes and cache preloading. Where time decides, the models have it as an
  assumption: `Lag` in `SidSound`, the NMI's delay in `MenuHandshake` and `SwiftLink`, the second a button is held in `EasyFlash`.
* *Displays, LEDs, pages.* What a display command does to the pins, the LED and reset bits that share `latchD`, the contents of the
  pages and what the settings' keys change.
* *Network.* HTTP, TCP and USB are free answers and failures of the environment; form parsing, NTP and the memory view of the
  web server; the userport modem on the USB bus; WiC64.
* *Cartridges.* GAME and EXROM of EasyFlash, DMA while a bank is brought into the cache, EAPI patching, the EEPROM of GMOD2, the polling
  handler and the other kinds of images; banks and RAM of the freezers, Warp Speed (which does not freeze); GeoRAM and the RAM of RKL (a page register and a
  file that is written when the kernel is left); a power loss of the Pi itself.
* *Sound.* The emulated chips (third-party code), HDMI and PWM, the kernel for eight SIDs and the players.
* *Variants.* The C128's launcher and cartridges, C16/Plus4 and VC20.
* *Memory.* The heap, stack depth and dangling pointers. Where the code reads memory it no longer owns, texts and page
  contents are abstracted, and the hazard is listed. The ends of the modem's buffers, which are tens of thousands of bytes away, are not reached.
* *Pure functions and third-party code.* Disk images, conversions, directories, configuration; Circle, psid64, tools, hardware files.
