----------------------------- MODULE EasyFlash -----------------------------
(***************************************************************************)
(* The EasyFlash cartridge (kernel_ef.cpp, crt.cpp).  A program on the C64 *)
(* changes the flash memory through the EAPI: commands of several bytes,   *)
(* written to one register, which the FIQ handler collects.  The main loop *)
(* writes a changed image back to the .CRT file: when the C64 has been     *)
(* switched off, with the handler still on, and when the kernel is left by *)
(* holding the reset button, with the handler off.                         *)
(*                                                                         *)
(* A bank has two halves of 8 KB; a byte stands for each of them, a set of *)
(* bits.  The file has some of them, its chips.  The image comes from this *)
(* file or from the network.                                               *)
(***************************************************************************)
EXTENDS Naturals, Sequences

CONSTANTS Banks, SectorBanks,   \* 64 and 8
          Bits,                 \* the bits of a byte
          Chips,                \* the halves of banks that the file has
          MaxCommands,          \* bound: commands that change the memory
          MaxLaunches           \* bound: launches of the kernel

Halves == {"low", "high"}
Cells == (0 .. Banks - 1) \X Halves

ASSUME BanksAssumption ==
    Banks \in Nat \ {0} /\ SectorBanks \in Nat \ {0}
ASSUME ChipsAssumption == Chips \subseteq Cells
ASSUME BoundsAssumption == MaxCommands \in Nat /\ MaxLaunches \in Nat \ {0}

VARIABLES
    flash,     \* ef.flash_cacheoptimized
    file,      \* the chips of the .CRT file; <<>> after f_open created it anew
    image,     \* rawCRT, the file as it is written back
    patched,   \* the chips whose bytes rawCRT has got
    modified,  \* ef.eapiCRTModified
    net,       \* the image came from the network
    pc,        \* the main loop: "menu", "loop", "patch", "write", "halted"
    handler,   \* the FIQ handler is connected
    power,     \* the C64 is on
    reset,     \* the reset line: "up", "low", "long"
    state,     \* ef.eapiState
    in,        \* ef.eapiBufferIn
    bank,      \* ef.reg0
    reply,     \* ef.eapiBufferOut, unless it has been read
    late,      \* history: chips changed after rawCRT got their bytes
    commands, launches

eapi == <<state, in, reply>>
c64 == <<power, reset>>
saving == <<file, image, patched, modified>>
vars == <<flash, saving, net, pc, handler, c64, eapi, bank, late, commands, launches>>

TypeOK ==
    /\ flash \in [Cells -> SUBSET Bits]
    /\ file = <<>> \/ file \in [Chips -> SUBSET Bits]
    /\ image \in [Chips -> SUBSET Bits] /\ patched \subseteq Chips
    /\ modified \in BOOLEAN /\ net \in BOOLEAN
    /\ pc \in {"menu", "loop", "patch", "write", "halted"} /\ handler \in BOOLEAN
    /\ power \in BOOLEAN /\ reset \in {"up", "low", "long"}
    /\ state \in {"main", "write", "erase"} /\ Len(in) < 3
    /\ bank \in 0 .. Banks - 1 /\ reply \in {"none", "ok", "error"}
    /\ late \subseteq Chips
    /\ commands \in 0 .. MaxCommands /\ launches \in 0 .. MaxLaunches

Init ==
    /\ flash \in [Cells -> {Bits}] /\ file \in [Chips -> {Bits, {}}]
    /\ image = [c \in Chips |-> {}] /\ patched = {}
    /\ modified = FALSE /\ net = FALSE /\ pc = "menu" /\ handler = FALSE
    /\ power = TRUE /\ reset = "up"
    /\ state = "main" /\ in = <<>> /\ reply = "none" /\ bank = 0
    /\ late = {} /\ commands = 0 /\ launches = 0

\* initEF
InitEF == state' = "main" /\ in' = <<>> /\ reply' = "none" /\ bank' = 0

\* parseCRTInMemory: what the image lacks keeps what was in memory before
Load(content) == flash' = [c \in Cells |-> IF c \in Chips THEN content[c] ELSE flash[c]]

\* KernelEFRun up to the main loop
Launch ==
    /\ pc = "menu" /\ power /\ reset = "up" /\ launches < MaxLaunches
    /\ launches' = launches + 1
    /\ \/ net' = FALSE /\ file # <<>> /\ Load(file)
       \/ net' = TRUE /\ Load([c \in Chips |-> Bits])
    /\ modified' = FALSE /\ late' = {}
    /\ InitEF
    /\ pc' = "loop" /\ handler' = TRUE
    /\ UNCHANGED <<file, image, patched, c64, commands>>

(***************************************************************************)
(* The C64 and the FIQ handler                                             *)
(***************************************************************************)
Runs == handler /\ power /\ reset = "up"

\* A write to $DE00
SelectBank ==
    /\ Runs
    /\ bank' \in 0 .. Banks - 1
    /\ UNCHANGED <<flash, saving, net, pc, handler, c64, eapi, late, commands, launches>>

\* What the bytes of a finished command do: cells and answer
Changed(c) == flash'[c] # flash[c]

Done ==
    /\ modified' = TRUE /\ state' = "main" /\ in' = <<>>
    /\ late' = late \cup {c \in patched : pc \in {"patch", "write"} /\ Changed(c)}
    /\ commands' = commands + 1

WriteFlash(hi, byte) ==
    /\ flash' = [flash EXCEPT ![<<bank, IF hi = "e0" THEN "high" ELSE "low">>] = @ \cap byte]
    /\ reply' = "ok"

\* Slip: the sector is not aligned
Slip_EraseSector(hi, b) ==
    IF b >= Banks
      THEN reply' = "error" /\ UNCHANGED flash
      ELSE /\ flash' = [c \in Cells |->
                          IF c[1] \in b .. b + SectorBanks - 1
                             /\ c[2] = (IF hi = "80" THEN "low" ELSE "high")
                            THEN Bits ELSE flash[c]]
           /\ reply' = "ok"

EraseSector(hi, b) ==
    IF b >= Banks \/ b % SectorBanks # 0
      THEN reply' = "error" /\ UNCHANGED flash
      ELSE /\ flash' = [c \in Cells |->
                          IF c[1] \in b .. b + SectorBanks - 1
                             /\ c[2] = (IF hi = "80" THEN "low" ELSE "high")
                            THEN Bits ELSE flash[c]]
           /\ reply' = "ok"

\* eapiReceiveByte in the state EAPI_STATE_MAIN
Command ==
    /\ state = "main"
    /\ \/ reply' = "ok" /\ UNCHANGED <<state, in>>
       \/ commands < MaxCommands /\ state' \in {"write", "erase"} /\ in' = <<>>
          /\ UNCHANGED reply
    /\ UNCHANGED <<flash, modified, late, commands>>

\* Slip: the bytes are counted from one
Slip_Argument ==
    /\ state # "main"
    /\ IF Len(in) < 3
         THEN /\ in' \in {Append(in, x) : x \in IF in = <<>> THEN {"lo"} ELSE {"80", "a0", "e0"}}
              /\ UNCHANGED <<flash, modified, late, commands, state, reply>>
         ELSE /\ \/ state = "write" /\ \E byte \in SUBSET Bits : WriteFlash(in[2], byte)
                 \/ state = "erase" /\ \E b \in 0 .. Banks : EraseSector(in[2], b)
              /\ Done

\* One of the bytes that follow
Argument ==
    /\ state # "main"
    /\ IF Len(in) < 2
         THEN /\ in' \in {Append(in, x) : x \in IF in = <<>> THEN {"lo"} ELSE {"80", "a0", "e0"}}
              /\ UNCHANGED <<flash, modified, late, commands, state, reply>>
         ELSE /\ \/ state = "write" /\ \E byte \in SUBSET Bits : WriteFlash(in[2], byte)
                 \/ state = "erase" /\ \E b \in 0 .. Banks : EraseSector(in[2], b)
              /\ Done

\* A write to $DE0A
EapiByte ==
    /\ Runs
    /\ Command \/ Argument
    /\ UNCHANGED <<file, image, patched, net, pc, handler, c64, bank, launches>>

\* A read of $DE0A
ReadReply ==
    /\ Runs /\ reply # "none"
    /\ reply' = "none"
    /\ UNCHANGED <<flash, saving, net, pc, handler, c64, state, in, bank, late, commands,
                   launches>>

(***************************************************************************)
(* The switches of the C64.  After more than three cycles of reset the     *)
(* handler calls initEF, once for each press.                              *)
(***************************************************************************)
Switch == UNCHANGED <<flash, saving, net, pc, handler, late, commands, launches>>

PressReset ==
    /\ power /\ reset = "up" /\ reset' = "low"
    /\ IF handler THEN InitEF ELSE UNCHANGED <<eapi, bank>>
    /\ UNCHANGED power /\ Switch

HoldReset ==
    /\ power /\ reset = "low" /\ reset' = "long"
    /\ UNCHANGED <<power, eapi, bank>> /\ Switch

ReleaseReset ==
    /\ reset # "up" /\ reset' = "up"
    /\ UNCHANGED <<power, eapi, bank>> /\ Switch

SwitchOff ==
    /\ power /\ power' = FALSE /\ reset' = "up"
    /\ UNCHANGED <<eapi, bank>> /\ Switch

SwitchOn ==
    /\ ~power /\ power' = TRUE /\ reset' = "low"
    /\ IF handler THEN InitEF ELSE UNCHANGED <<eapi, bank>>
    /\ Switch

(***************************************************************************)
(* The main loop                                                           *)
(***************************************************************************)
\* writeChanges2CRTFile reads the file.  An image of the network has none:
\* LogPanic halts the Pi.
ReadFile ==
    IF net THEN pc' = "halted" /\ UNCHANGED <<image, patched, late>>
           ELSE pc' = "patch" /\ image' = file /\ patched' = {} /\ late' = {}

\* mainloopCount > 10000: the C64 has been off for a while
SaveWhenOff ==
    /\ pc = "loop" /\ ~power /\ modified
    /\ ReadFile
    /\ UNCHANGED <<flash, file, modified, net, handler, c64, eapi, bank, commands, launches>>

\* TEST_FOR_JUMP_TO_MAINMENU2FIQs_CB
Leave ==
    /\ pc = "loop" /\ power /\ reset = "long"
    /\ handler' = FALSE
    /\ IF modified THEN ReadFile
                   ELSE pc' = "menu" /\ UNCHANGED <<image, patched, late>>
    /\ UNCHANGED <<flash, file, modified, net, c64, eapi, bank, commands, launches>>

\* Slip: both halves of a bank get the bytes of the low one
Slip_Patch ==
    /\ pc = "patch"
    /\ \/ \E c \in Chips \ patched :
            /\ image' = [image EXCEPT ![c] = flash[<<c[1], "low">>]] /\ patched' = patched \cup {c}
            /\ UNCHANGED <<pc, file>>
       \/ /\ patched = Chips /\ pc' = "write" /\ file' = <<>>
          /\ UNCHANGED <<image, patched>>
    /\ UNCHANGED <<flash, modified, net, handler, c64, eapi, bank, late, commands, launches>>

\* A chip gets its bytes, or all of them have theirs and the file is created anew
Patch ==
    /\ pc = "patch"
    /\ \/ \E c \in Chips \ patched :
            /\ image' = [image EXCEPT ![c] = flash[c]] /\ patched' = patched \cup {c}
            /\ UNCHANGED <<pc, file>>
       \/ /\ patched = Chips /\ pc' = "write" /\ file' = <<>>
          /\ UNCHANGED <<image, patched>>
    /\ UNCHANGED <<flash, modified, net, handler, c64, eapi, bank, late, commands, launches>>

\* Slip: the flag is not cleared
Slip_WriteFile ==
    /\ pc = "write"
    /\ file' = image
    /\ IF handler THEN pc' = "loop" /\ UNCHANGED modified
                  ELSE pc' = "menu" /\ UNCHANGED modified
    /\ UNCHANGED <<flash, image, patched, net, handler, c64, eapi, bank, late, commands,
                   launches>>

\* Back in the main loop the flag is cleared
WriteFile ==
    /\ pc = "write"
    /\ file' = image
    /\ IF handler THEN pc' = "loop" /\ modified' = FALSE
                  ELSE pc' = "menu" /\ UNCHANGED modified
    /\ UNCHANGED <<flash, image, patched, net, handler, c64, eapi, bank, late, commands,
                   launches>>

MainLoop == SaveWhenOff \/ Leave \/ Patch \/ WriteFile

Next ==
    \/ Launch
    \/ SelectBank \/ EapiByte \/ ReadReply
    \/ PressReset \/ HoldReset \/ ReleaseReset \/ SwitchOff \/ SwitchOn
    \/ MainLoop

Spec == Init /\ [][Next]_vars /\ WF_vars(MainLoop)
-----------------------------------------------------------------------------
(***************************************************************************)
(* Properties                                                              *)
(***************************************************************************)
\* To the program on the C64 the memory behaves as FlashChip says: bytes of
\* commands that a reset cuts off change nothing, an answer "ok" is only given
\* for what was done (kernel_ef.cpp, eapiReceiveByte, initEF).
Chip == INSTANCE FlashChip WITH cells <- flash, reply <- reply, running <- handler
ChipSpec == Chip!Spec

\* What the program wrote to the chips is in the file or still marked as not
\* saved.  The exception is what it wrote after the C64 had been switched on again
\* while the main loop saved: the flag is cleared over it (kernel_ef.cpp, Run).
OnlyLateLost ==
    launches > 0 /\ ~net /\ file # <<>> =>
        \A c \in Chips : file[c] # flash[c] => modified \/ c \in late

\* With the C64 off, changes get saved (unless the kernel was left before).
SavedWhenOff == modified /\ ~power ~> ~modified \/ power \/ pc \in {"menu", "halted"}

\* net.cpp calls the file name of an image from the network an irrelevant dummy
\* name that will be used to try to load a tga file.  writeChanges2CRTFile opens
\* it and halts the Pi.
NameIsDummy == pc # "halted"
=============================================================================
