----------------------------- MODULE PrgLaunch -----------------------------
(***************************************************************************)
(* How a program gets into the C64 (kernel_launch.cpp, launch.h, and the   *)
(* loader of the C64, C64Side/cart.a).  The Sidekick shows a small ROM with*)
(* the loader, which fetches the file byte by byte from one register: first*)
(* the part from Split ($A000) on, which goes to a buffer at $2000 and is  *)
(* copied under the ROMs from there, then the part below.  Both parts come *)
(* in whole pages.  Then it turns the cartridge off and starts the program.*)
(*                                                                         *)
(* Three parties share the state: the main loop, which resets the C64 when *)
(* it does not come up, the FIQ handler, which answers the C64's accesses, *)
(* and the loader.  A byte of the file is told by its position, from 1 on; *)
(* what lies behind the file in the buffer is Junk, 0 is memory of the C64 *)
(* that has not been written since the launch, Code what the C64's ROM and *)
(* the loader write for themselves.  Left out: the loaders cart_noinit.a   *)
(* and cart128.a, and the values of BASIC's pointers.                      *)
(***************************************************************************)
EXTENDS Naturals

CONSTANTS Page,       \* bytes in a page (256)
          Split,      \* where the upper part begins ($A000)
          Top,        \* addresses of the C64 (65536)
          Buffer,     \* where the upper part waits to be copied ($2000)
          Low,        \* below: ROM variables, stack, screen, reset trap ($0801)
          Loader,     \* above it, also written by the loader: its copy loops
                      \* at $1000, the first bytes of BASIC memory
          IO,         \* addresses of the I/O area ($D000-$DFFF)
          Programs,   \* the .PRG files: [start |-> load address, size |-> bytes]
          Enough,     \* reads of the ROM that tell that the loader runs (32)
          Modem,      \* whether a SwiftLink modem is emulated
          MaxResets,  \* bound: short presses of the reset button
          MaxHangs    \* bound: times the C64 does not come up

ASSUME MemoryAssumption ==
    /\ Page \in Nat \ {0} /\ Split \in Nat /\ Top \in Nat /\ Split < Top /\ Top <= 256 * Page
    /\ Low \in Nat /\ Buffer \in Nat /\ Low <= Buffer /\ Buffer + (Top - Split) <= Split
    /\ Loader \subseteq Low .. Buffer - 1 /\ IO \subseteq Split .. Top - 1
    /\ Enough \in Nat \ {0}
\* Programs that the loader cannot load are left out: one at Split itself has an
\* empty lower part, for which the page counter goes round once; one whose last
\* page goes beyond the end of memory writes on in the zero page; one below Low
\* overwrites the loader that loads it, or is overwritten when BASIC starts; and
\* one above Split is stored with the I/O area in its way, not the RAM under it.
ASSUME ProgramsAssumption ==
    /\ Programs \subseteq [start : Low .. Top - 1, size : 3 .. Top]
    /\ \A p \in Programs :
          /\ p.start # Split /\ p.start + p.size + Page <= Top + 1
          /\ p.start > Split => (p.start .. p.start + p.size + Page - 3) \cap IO = {}
ASSUME LimitsAssumption ==
    Modem \in BOOLEAN /\ MaxResets \in Nat /\ MaxHangs \in Nat

VARIABLES
    prg,         \* prgData: the file, as one of Programs
    stage,       \* main loop: 1 until the ROM is read, 2 until enough is
    nBytesRead,  \* reads of the ROM, as far as they matter
    disableCart,
    currentOfs, transferPart,
    latched,     \* forceReadLaunch: the byte for the next read
    unlocked,    \* swiftLinkEnabled
    pc,          \* what the C64 does
    pages, done, dest,   \* the loader's page counter, bytes and address
    mem,         \* memory of the C64
    resets, hangs

handler == <<disableCart, currentOfs, transferPart, latched>>
loader == <<pages, done, dest>>
vars == <<prg, stage, nBytesRead, handler, unlocked, pc, loader, mem, resets, hangs>>

(***************************************************************************)
(* The file and its two parts                                              *)
(***************************************************************************)
Junk == prg.size + 1

Byte(o) == IF o < prg.size THEN o + 1 ELSE Junk

Code == Top + 2

\* Memory after the C64 has written addresses in A for itself
Used(A) == [a \in 0 .. Top - 1 |-> IF a \in A THEN Code ELSE mem[a]]

\* 0xa000 - startAddr is unsigned: for a program above Split it is huge
PrgSizeBelow ==
    IF prg.start <= Split /\ Split - prg.start <= prg.size - 2
        THEN Split - prg.start
        ELSE prg.size - 2

\* Slip: the lower part is counted to the upper part
Slip_PrgSizeAbove ==
    IF prg.start <= Split /\ Split - prg.start <= prg.size - 2
        THEN prg.size
        ELSE 0

PrgSizeAbove ==
    IF prg.start <= Split /\ Split - prg.start <= prg.size - 2
        THEN prg.size - PrgSizeBelow
        ELSE 0

PagesOf(n) == (n + Page - 1) \div Page

\* The address after the last byte, endAddr
End == prg.start + prg.size - 2

Init ==
    /\ prg \in Programs
    /\ stage = 1 /\ nBytesRead = 0
    /\ disableCart = FALSE /\ currentOfs = 0 /\ transferPart = 1
    /\ latched = Byte(0)
    /\ unlocked = FALSE
    /\ pc = "boot" /\ pages = 0 /\ done = 0 /\ dest = 0
    /\ mem = [a \in 0 .. Top - 1 |-> 0]
    /\ resets = 0 /\ hangs = 0

TypeOK ==
    /\ prg \in Programs
    /\ stage \in 0 .. 2 /\ nBytesRead \in 0 .. Enough
    /\ disableCart \in BOOLEAN /\ unlocked \in BOOLEAN
    /\ currentOfs \in Nat /\ transferPart \in 0 .. 1 /\ latched \in Nat
    /\ pc \in {"boot", "hung", "basic", "install", "askUpper", "upperPages", "upper", "copy",
               "askLower", "lowerPages", "address", "lower", "start", "run"}
    /\ pages \in Nat /\ done \in Nat /\ dest \in Nat
    /\ mem \in [0 .. Top - 1 -> Nat]
    /\ resets \in 0 .. MaxResets /\ hangs \in 0 .. MaxHangs

(***************************************************************************)
(* The C64 comes up                                                        *)
(***************************************************************************)
\* The ROM is shown unless the handler has been unlocked for the modem: then
\* it returns before it comes to the ROM, and the C64 starts its BASIC
ReadRom ==
    /\ pc = "boot"
    /\ IF unlocked
         THEN pc' = "basic" /\ UNCHANGED nBytesRead
         ELSE /\ nBytesRead' = nBytesRead + 1
              /\ pc' = IF nBytesRead' = Enough THEN "install" ELSE pc
    /\ UNCHANGED <<prg, stage, handler, unlocked, loader, mem, resets, hangs>>

\* The C64 does not come up, before or after it has read Enough
Hang ==
    /\ pc \in {"boot", "install"} /\ ~unlocked /\ hangs < MaxHangs
    /\ pc' = "hung" /\ hangs' = hangs + 1
    /\ UNCHANGED <<prg, stage, nBytesRead, handler, unlocked, loader, mem, resets>>

\* The main loop sees that the ROM is read
SeeRead ==
    /\ ~disableCart /\ stage = 1 /\ nBytesRead > 0
    /\ stage' = 2
    /\ UNCHANGED <<prg, nBytesRead, handler, unlocked, pc, loader, mem, resets, hangs>>

\* Slip: no new attempt follows the reset
Slip_ResetAgain ==
    /\ ~disableCart /\ stage = 2 /\ nBytesRead < Enough /\ pc = "hung"
    /\ stage' = 0 /\ nBytesRead' = 0 /\ pc' = "boot"
    /\ UNCHANGED <<prg, handler, unlocked, loader, mem, resets, hangs>>

\* Too few reads for half a second: the main loop resets the C64
ResetAgain ==
    /\ ~disableCart /\ stage = 2 /\ nBytesRead < Enough /\ pc = "hung"
    /\ stage' = 1 /\ nBytesRead' = 0 /\ pc' = "boot"
    /\ UNCHANGED <<prg, handler, unlocked, loader, mem, resets, hangs>>

\* A short press of the reset button (resetCounter > 3)
ShortReset ==
    /\ resets < MaxResets
    /\ stage' = 1 /\ nBytesRead' = 0 /\ disableCart' = FALSE /\ pc' = "boot"
    /\ resets' = resets + 1
    /\ UNCHANGED <<prg, currentOfs, transferPart, latched, unlocked, loader, mem, hangs>>

\* A long one leads to the menu, where a program is chosen again:
\* KernelLaunchRun sets everything but the byte that is latched.
Relaunch ==
    /\ pc \in {"run", "basic"} /\ resets < MaxResets
    /\ prg' \in Programs
    /\ stage' = 1 /\ nBytesRead' = 0
    /\ disableCart' = FALSE /\ currentOfs' = 0 /\ transferPart' = 1
    /\ unlocked' = FALSE
    /\ pc' = "boot" /\ mem' = [a \in 0 .. Top - 1 |-> 0]
    /\ resets' = resets + 1
    /\ UNCHANGED <<latched, loader, hangs>>

(***************************************************************************)
(* The loader and the handler                                              *)
(***************************************************************************)
\* coldstart and warmstart: variables and stack are cleared, the copy loop and
\* the reset trap are copied to RAM, and BASIC starts, which calls the trap
InstallLoader ==
    /\ pc = "install" /\ pc' = "askUpper"
    /\ mem' = Used((0 .. Low - 1) \cup Loader)
    /\ UNCHANGED <<prg, stage, nBytesRead, handler, unlocked, loader, resets, hangs>>

\* Slip: the load address is counted to the lower part
Slip_AskUpper ==
    /\ pc = "askUpper" /\ pc' = "upperPages"
    /\ currentOfs' = PrgSizeBelow /\ transferPart' = 1
    /\ latched' = Byte(PrgSizeBelow)
    /\ UNCHANGED <<prg, stage, nBytesRead, disableCart, unlocked, loader, mem, resets, hangs>>

\* sta $de02
AskUpper ==
    /\ pc = "askUpper" /\ pc' = "upperPages"
    /\ currentOfs' = PrgSizeBelow + 2 /\ transferPart' = 1
    /\ latched' = Byte(PrgSizeBelow + 2)
    /\ UNCHANGED <<prg, stage, nBytesRead, disableCart, unlocked, loader, mem, resets, hangs>>

\* lda $de01: how many pages the part has, in eight bits
ReadPages ==
    /\ pc \in {"upperPages", "lowerPages"}
    /\ pages' = PagesOf(IF transferPart = 1 THEN PrgSizeAbove ELSE PrgSizeBelow) % 256
    /\ latched' = Byte(currentOfs)
    /\ done' = 0
    /\ pc' = IF pc = "lowerPages" THEN "address"
                ELSE IF pages' = 0 THEN "askLower" ELSE "upper"
    /\ UNCHANGED <<prg, stage, nBytesRead, disableCart, currentOfs, transferPart, unlocked,
                   dest, mem, resets, hangs>>

\* The loader stores the byte that lda $de00 returns, and goes on until its
\* page counter is 0.  A counter that is 0 from the beginning counts down
\* from 256: that is all memory.
Fetch(to, next) ==
    /\ mem' = [mem EXCEPT ![(to + done) % Top] = latched]
    /\ currentOfs' = currentOfs + 1
    /\ latched' = Byte(currentOfs + 1)
    /\ LET last == done + 1 = (IF pages = 0 THEN Top ELSE pages * Page) IN
          /\ done' = IF last THEN 0 ELSE done + 1
          /\ pc' = IF last THEN next ELSE pc
    /\ UNCHANGED <<prg, stage, nBytesRead, disableCart, transferPart, unlocked, pages,
                   dest, resets, hangs>>

FetchUpper == pc = "upper" /\ Fetch(Buffer, "copy")

\* The upper part is copied from the buffer with the ROMs off
CopyUpper ==
    /\ pc = "copy"
    /\ mem' = [mem EXCEPT ![Split + done] = mem[Buffer + done]]
    /\ LET last == done + 1 = pages * Page IN
          /\ done' = IF last THEN 0 ELSE done + 1
          /\ pc' = IF last THEN "askLower" ELSE pc
    /\ UNCHANGED <<prg, stage, nBytesRead, handler, unlocked, pages, dest, resets, hangs>>

\* sta $de00
AskLower ==
    /\ pc = "askLower" /\ pc' = "lowerPages"
    /\ currentOfs' = 0 /\ transferPart' = 0 /\ latched' = Byte(0)
    /\ UNCHANGED <<prg, stage, nBytesRead, disableCart, unlocked, loader, mem, resets, hangs>>

\* The first two bytes are the load address
FetchAddress ==
    /\ pc = "address" /\ pc' = "lower"
    /\ dest' = IF latched = Byte(0) THEN prg.start ELSE 0
    /\ currentOfs' = currentOfs + 2 /\ latched' = Byte(currentOfs + 2)
    /\ UNCHANGED <<prg, stage, nBytesRead, disableCart, transferPart, unlocked, pages, done,
                   mem, resets, hangs>>

FetchLower == pc = "lower" /\ Fetch(dest, "start")

\* BASIC's variables are set, for which the pages are asked for once more, and
\* "RUN" is typed; 123 to $df00: the cartridge is off, and the program starts
StartProgram ==
    /\ pc = "start" /\ pc' = "run"
    /\ mem' = Used(0 .. Low - 1)
    /\ currentOfs' = 0 /\ transferPart' = 0 /\ latched' = Byte(0)
    /\ disableCart' = TRUE
    /\ UNCHANGED <<prg, stage, nBytesRead, unlocked, loader, resets, hangs>>

\* netDelay has run out while the program runs
UnlockModem ==
    /\ Modem /\ disableCart /\ ~unlocked
    /\ unlocked' = TRUE
    /\ UNCHANGED <<prg, stage, nBytesRead, handler, pc, loader, mem, resets, hangs>>

Load == InstallLoader \/ AskUpper \/ ReadPages \/ FetchUpper \/ CopyUpper \/ AskLower
            \/ FetchAddress \/ FetchLower \/ StartProgram

MainLoop == SeeRead \/ ResetAgain \/ UnlockModem

Next == ReadRom \/ Hang \/ ShortReset \/ Relaunch \/ Load \/ MainLoop

(***************************************************************************)
(* The C64 runs and so does the main loop; nobody has to press a button.   *)
(***************************************************************************)
Fairness == WF_vars(ReadRom) /\ WF_vars(Load) /\ WF_vars(SeeRead) /\ WF_vars(ResetAgain)

Spec == Init /\ [][Next]_vars /\ Fairness

(***************************************************************************)
(* Properties                                                              *)
(***************************************************************************)
\* When the program starts it is in memory, every byte of the file at its
\* place, whether it crosses $A000 or not, although the buffer of the upper part
\* and the loader itself lie where the lower part goes, and whatever was
\* interrupted before (cart.a, the two halves of the transfer).
ProgramLoaded ==
    pc = "run" => \A o \in 2 .. prg.size - 1 : mem[prg.start + o - 2] = Byte(o)

\* What a launch overwrites, whenever it is interrupted: what the C64 and the
\* loader use for themselves; the program with what is left of its last page, and
\* a page if two bytes more would have begun one; and for a program that crosses
\* $A000 as many pages at $2000 as its upper part has, also if the program begins
\* above them (cart.a, the stores of the loader).
NothingElseWritten ==
    \A a \in 0 .. Top - 1 : mem[a] # 0 =>
        \/ a < Low \/ a \in Loader
        \/ a >= prg.start /\ a < End + Page + 2
        \/ a >= Buffer /\ a < Buffer + PagesOf(PrgSizeAbove) * Page

\* A C64 that began to read the loader and got stuck before it has read Enough is
\* reset, as often as it happens, until the program runs (kernel_launch.cpp, the
\* stages of the main loop).  One that has read nothing at all, or Enough, is not
\* noticed.
HungIsReset ==
    pc = "hung" /\ nBytesRead \in 1 .. Enough - 1
        ~> pc = "run" \/ (pc = "hung" /\ nBytesRead \in {0, Enough})
============================================================================
