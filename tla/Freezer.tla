------------------------------ MODULE Freezer ------------------------------
(***************************************************************************)
(* The freezer cartridges: Action Replay (kernel_ar.cpp), Final Cartridge  *)
(* III (kernel_fc3.cpp), KCS Power Cartridge (kernel_kcs.cpp), Super       *)
(* Snapshot 5 (kernel_ssnap5.cpp), Freeze Machine and Freeze Frame         *)
(* (kernel_freezemachine.cpp).  The freeze button pulls NMI; when the C64  *)
(* has pushed its three bytes, the handler switches on the ROM of the      *)
(* freezer, in time for the NMI vector.  That the CPU is that far it       *)
(* concludes from three writes in a row.                                   *)
(*                                                                         *)
(* An action Cycle is one cycle of the CPU of the C64, with the FIQ handler*)
(* that it causes.  The CPU runs instructions with at most two writes in a *)
(* row, and interrupts.  After a reset the main loop calls callbackReset,  *)
(* in the middle of which the handler may run; the handler of the Freeze   *)
(* Machine calls it itself.                                                *)
(*                                                                         *)
(* The names that every module has (Init, Next, Spec ...) carry a prefix   *)
(* here: Cartridges_proofs extends this module and SwiftLink.              *)
(***************************************************************************)
EXTENDS Naturals

CONSTANTS Carts,      \* the cartridges to look at
          MaxPresses  \* bound: how often the freeze button or reset is pressed

ASSUME CartsAssumption == Carts \subseteq {"ar", "fc3", "kcs", "ss5", "fm", "ff"}
ASSUME BoundAssumption == MaxPresses \in Nat

\* What GAME and EXROM make of the memory map: "ultimax" is GAME low only
Modes == {"off", "8k", "16k", "ultimax"}

VARIABLES
    cart,
    f,        \* the state of the cartridge and the lines it drives, see Cartridge
    button,   \* the freeze button is down
    cpu,      \* what the cycle to come is
    pending,  \* cycles since an edge of NMI, 3 for more; 0: the CPU has seen none
    vector,   \* the vector it is going to fetch
    reset,    \* "no", "low", or where the main loop is in callbackReset
    clean,    \* history: an NMI is under way that the button has caused, and not
              \* during another interrupt or a reset
    presses

bus == <<cpu, pending, vector>>
freezerVars == <<cart, f, button, bus, reset, clean, presses>>

Pushes == {"push1", "push2", "push3"}

Cartridge ==
    [mode : Modes,
     nmi : BOOLEAN,       \* the NMI line is low
     active : BOOLEAN,    \* the register can be accessed
     count : 0 .. 4,      \* countWrites; 4 stands for more than 3
     freezing : BOOLEAN,  \* freezeNMICycles > 0
     debounce : BOOLEAN]  \* lastFreezeButton > 0

FreezerTypeOK ==
    /\ cart \in Carts /\ f \in Cartridge /\ button \in BOOLEAN
    /\ cpu \in {"fetch", "body", "operand", "second", "vector"} \cup Pushes
    /\ pending \in 0 .. 3 /\ vector \in {"irq", "nmi"}
    /\ reset \in {"no", "low", "released", "half"} /\ clean \in BOOLEAN
    /\ presses \in 0 .. MaxPresses

\* The lines after a reset
FirstMode == [ar |-> "8k", fc3 |-> "16k", kcs |-> "16k", ss5 |-> "ultimax",
              fm |-> "8k", ff |-> "8k"]

FreezerInit ==
    /\ cart \in Carts
    /\ f = [mode |-> FirstMode[cart], nmi |-> cart = "fc3", active |-> TRUE, count |-> 0,
            freezing |-> FALSE, debounce |-> FALSE]
    /\ button = FALSE
    /\ cpu = "fetch" /\ pending = 0 /\ vector = "irq"
    /\ reset = "no" /\ clean = FALSE /\ presses = 0

(***************************************************************************)
(* Accesses: reads of the cartridge's ROM, of its RAM in I/O 2, of a       *)
(* register or of anything else, writes to the register, to the cartridge's*)
(* RAM or to anything else.  For a register, what the value or the address *)
(* says.                                                                   *)
(***************************************************************************)
Plain(kind) == [kind |-> kind, mode |-> "off", off |-> FALSE, nmi |-> FALSE]
Register(kind) == [kind : {kind}, mode : Modes, off : BOOLEAN, nmi : BOOLEAN]

Read(a) == a.kind \in {"rom", "ram", "ramread", "ioread"}

Counted(g, a) ==
    [g EXCEPT !.count = IF Read(a) THEN 0 ELSE IF @ = 4 THEN 4 ELSE @ + 1]

\* lastFreezeButton takes half a second to count down, by far more than the
\* CPU takes for an interrupt
Settled(g) == {g} \cup (IF pending > 0 THEN {} ELSE {[g EXCEPT !.debounce = FALSE]})

(***************************************************************************)
(* The FIQ handlers: the possible states after an access                   *)
(***************************************************************************)
\* ar_IO1_Write
ArRegister(g, a) ==
    [g EXCEPT !.mode = a.mode, !.active = @ /\ ~a.off, !.nmi = @ /\ ~a.nmi]

\* Slip: count from the middle of an interrupt on, whatever reads are between
Slip_KernelAR6FIQHandler(g0, a) ==
    LET g == [g0 EXCEPT !.count = IF Read(a) \/ @ = 4 THEN @ ELSE @ + 1] IN
    IF g.active /\ a.kind \in {"rom", "ioread", "ramwrite"} THEN {g}
    ELSE IF g.active /\ a.kind = "iowrite" THEN {ArRegister(g, a)}
    ELSE IF button /\ ~g.debounce
      THEN {[g EXCEPT !.debounce = TRUE, !.freezing = TRUE, !.nmi = TRUE]}
    ELSE IF g.freezing /\ g.count = 3
      THEN {[g EXCEPT !.mode = "ultimax", !.nmi = FALSE, !.active = TRUE, !.freezing = FALSE]}
    ELSE Settled(g)

KernelAR6FIQHandler(g0, a) ==
    LET g == Counted(g0, a) IN
    IF g.active /\ a.kind \in {"rom", "ioread", "ramwrite"} THEN {g}
    ELSE IF g.active /\ a.kind = "iowrite" THEN {ArRegister(g, a)}
    ELSE IF button /\ ~g.debounce
      THEN {[g EXCEPT !.debounce = TRUE, !.freezing = TRUE, !.nmi = TRUE]}
    ELSE IF g.freezing /\ g.count = 3
      THEN {[g EXCEPT !.mode = "ultimax", !.nmi = FALSE, !.active = TRUE, !.freezing = FALSE]}
    ELSE Settled(g)

\* GAME is pulled low, EXROM stays
GameLow(mode) == IF mode \in {"off", "ultimax"} THEN "ultimax" ELSE "16k"

\* Slip: the writes are compared with 2
Slip_KernelFC3FIQHandler(g0, a) ==
    LET g == Counted(g0, a) IN
    IF a.kind \in {"rom", "ioread"} THEN {g0}
    ELSE IF g.active /\ a.kind = "iowrite"
      THEN {[g EXCEPT !.mode = a.mode, !.nmi = a.nmi, !.active = ~a.off \/ a.mode = "ultimax"]}
    ELSE IF button /\ ~g.debounce
      THEN {[g EXCEPT !.debounce = TRUE, !.freezing = TRUE, !.nmi = TRUE, !.count = 0]}
    ELSE IF g.freezing /\ g.count = 2
      THEN {[g EXCEPT !.mode = GameLow(@), !.active = TRUE, !.freezing = FALSE]}
    ELSE Settled(g)

KernelFC3FIQHandler(g0, a) ==
    LET g == Counted(g0, a) IN
    IF a.kind \in {"rom", "ioread"} THEN {g0}
    ELSE IF g.active /\ a.kind = "iowrite"
      THEN {[g EXCEPT !.mode = a.mode, !.nmi = a.nmi, !.active = ~a.off \/ a.mode = "ultimax"]}
    ELSE IF button /\ ~g.debounce
      THEN {[g EXCEPT !.debounce = TRUE, !.freezing = TRUE, !.nmi = TRUE, !.count = 0]}
    ELSE IF g.freezing /\ g.count = 3
      THEN {[g EXCEPT !.mode = GameLow(@), !.active = TRUE, !.freezing = FALSE]}
    ELSE Settled(g)

\* kcsConfig; the handler goes on after a write to the register in I/O 1, but
\* not after one to the RAM in I/O 2
KernelKCSFIQHandler(g0, a) ==
    LET g == IF a.kind = "iowrite"
               THEN [Counted(g0, a) EXCEPT !.mode = a.mode, !.nmi = FALSE]
               ELSE Counted(g0, a) IN
    IF a.kind \in {"rom", "ramread"} THEN {g0}
    ELSE IF a.kind = "ioread" THEN {[g0 EXCEPT !.mode = a.mode, !.nmi = FALSE]}
    ELSE IF a.kind = "ramwrite" THEN {g}
    ELSE IF button /\ ~g.debounce
      THEN {[g EXCEPT !.debounce = TRUE, !.freezing = TRUE, !.count = 0,
                      !.mode = "ultimax", !.nmi = TRUE]}
    ELSE IF g.freezing /\ g.count = 3
      THEN {[g EXCEPT !.mode = "ultimax", !.freezing = FALSE]}
    ELSE Settled(g)

\* ss5Config; the handler goes on after a write to the register, but not after
\* one to the RAM at $8000 if that is shown (exportRAM)
KernelSS5FIQHandler(g0, a) ==
    LET g == IF a.kind = "iowrite" /\ g0.active
               THEN [Counted(g0, a) EXCEPT !.mode = a.mode, !.nmi = FALSE, !.active = ~a.off]
               ELSE Counted(g0, a) IN
    IF a.kind = "rom" \/ (a.kind = "ioread" /\ g0.active) THEN {g0}
    ELSE IF a.kind = "ramwrite" /\ g.active THEN {g}
    ELSE IF button /\ ~g.debounce
      THEN {[g EXCEPT !.debounce = TRUE, !.freezing = TRUE, !.count = 0,
                      !.mode = "ultimax", !.active = TRUE, !.nmi = TRUE]}
    ELSE IF g.freezing /\ g.count = 3
      THEN {[g EXCEPT !.mode = "ultimax", !.freezing = FALSE]}
    ELSE Settled(g)

\* Reading I/O 1 releases NMI and leaves Ultimax, I/O 2 switches the ROM off
FmRegister(g, off) ==
    IF off THEN [g EXCEPT !.mode = "off", !.active = FALSE]
    ELSE [g EXCEPT !.nmi = FALSE,
                   !.mode = IF cart = "ff" \/ @ = "ultimax" THEN "8k" ELSE "16k"]

KernelFMFIQHandler(g0, a) ==
    LET g == Counted(g0, a) IN
    IF a.kind = "rom" THEN {g0}
    ELSE IF a.kind = "ioread" /\ g.active THEN {FmRegister(g, a.off)}
    ELSE IF button /\ ~g.debounce
      THEN {[g EXCEPT !.debounce = TRUE, !.freezing = TRUE, !.nmi = TRUE, !.count = 0]}
    ELSE IF g.freezing /\ g.count = 3
      THEN {[g EXCEPT !.mode = "ultimax", !.active = TRUE, !.freezing = FALSE]}
    ELSE Settled(g)

Handler(a) ==
    CASE cart = "ar"  -> KernelAR6FIQHandler(f, a)
      [] cart = "fc3" -> KernelFC3FIQHandler(f, a)
      [] cart = "kcs" -> KernelKCSFIQHandler(f, a)
      [] cart = "ss5" -> KernelSS5FIQHandler(f, a)
      [] cart \in {"fm", "ff"} -> KernelFMFIQHandler(f, a)

(***************************************************************************)
(* The CPU of the C64                                                      *)
(***************************************************************************)
Reads == {Plain("ram")} \cup Register("ioread")
           \cup (IF f.mode = "off" THEN {} ELSE {Plain("rom")})
           \cup (IF cart = "kcs" THEN {Plain("ramread")} ELSE {})

\* Which of its RAM a cartridge shows is left open: a write there may also be a
\* plain one
Writes == {Plain("write")} \cup Register("iowrite")
            \cup (IF cart \in {"ar", "kcs"} \/ (cart = "ss5" /\ f.mode = "ultimax")
                    THEN {Plain("ramwrite")} ELSE {})

\* The handler runs; the CPU sees an edge of NMI
Access(a) ==
    /\ reset # "low"
    /\ f' \in Handler(a)
    /\ clean' = \/ clean /\ ~(cpu = "vector" /\ vector = "nmi")
                \/ f'.freezing /\ ~f.freezing /\ ~f.nmi /\ pending = 0
                   /\ cpu \notin Pushes /\ reset = "no"
    /\ UNCHANGED <<cart, button, reset, presses>>

\* The NMI input of the CPU notes an edge
Age(seen) ==
    IF seen > 0 THEN IF seen = 3 THEN 3 ELSE seen + 1
    ELSE IF f'.nmi /\ ~f.nmi THEN 1 ELSE 0

\* The first cycle of an instruction, or of an interrupt.  An edge in one of
\* the last two cycles of an instruction may wait for the end of the next.
Fetch ==
    /\ cpu = "fetch"
    /\ \E a \in {b \in Reads : b.kind \in {"rom", "ram"}} : Access(a)
    /\ cpu' \in IF pending = 3 THEN {"push1"} ELSE {"body", "push1"}
    /\ pending' = Age(pending) /\ UNCHANGED vector

ReadCycle ==
    /\ cpu \in {"body", "operand"}
    /\ \E a \in Reads :
          /\ Access(a)
          /\ cpu' \in {"fetch", IF a.kind = "ram" THEN "operand" ELSE "body"}
    /\ pending' = Age(pending) /\ UNCHANGED vector

\* Two writes, of JSR or of an instruction that changes its operand, follow a
\* read of RAM; INC and the like on the ROM or on a register are left out
WriteCycle ==
    /\ \/ cpu \in {"body", "operand"} /\ cpu' = "fetch" /\ \E a \in Writes : Access(a)
       \/ cpu = "operand" /\ cpu' = "second" /\ Access(Plain("write"))
       \/ cpu = "second" /\ cpu' = "fetch" /\ Access(Plain("write"))
    /\ pending' = Age(pending) /\ UNCHANGED vector

Push ==
    /\ cpu \in Pushes
    /\ Access(Plain("write"))
    /\ cpu' = CASE cpu = "push1" -> "push2" [] cpu = "push2" -> "push3"
                [] cpu = "push3" -> "vector"
    /\ vector' = IF cpu # "push3" THEN vector ELSE IF pending > 0 THEN "nmi" ELSE "irq"
    /\ pending' = Age(IF cpu = "push3" THEN 0 ELSE pending)

\* The vector is at the end of the memory: the cartridge's ROM in Ultimax mode
FetchVector ==
    /\ cpu = "vector"
    /\ Access(Plain(IF f.mode = "ultimax" THEN "rom" ELSE "ram"))
    /\ cpu' = "fetch"
    /\ pending' = Age(pending) /\ UNCHANGED vector

Cycle == Fetch \/ ReadCycle \/ WriteCycle \/ Push \/ FetchVector

(***************************************************************************)
(* The buttons, the main loop                                              *)
(***************************************************************************)
PressFreeze ==
    /\ ~button /\ presses < MaxPresses
    /\ button' = TRUE /\ presses' = presses + 1
    /\ UNCHANGED <<cart, f, bus, reset, clean>>

ReleaseFreeze ==
    /\ button /\ button' = FALSE
    /\ UNCHANGED <<cart, f, bus, reset, clean, presses>>

\* The handler also runs in the cycles of a reset: there the button counts too
PressReset ==
    /\ reset = "no" /\ presses < MaxPresses
    /\ reset' = "low" /\ presses' = presses + 1
    /\ f' \in Handler(Plain("ram"))
    /\ clean' = FALSE
    /\ cpu' = "fetch" /\ pending' = 0 /\ vector' = "irq"
    /\ UNCHANGED <<cart, button>>

\* The counters and the lines that callbackReset sets; the FC3 leaves NMI low
Counters(g) == [g EXCEPT !.count = 0, !.freezing = FALSE, !.debounce = FALSE, !.active = TRUE]

Lines(g) ==
    [g EXCEPT !.mode = FirstMode[cart], !.active = TRUE,
              !.nmi = (cart = "fc3") \/ (cart = "ar" /\ @)]

\* The handler of the Freeze Machine resets in its first cycle after the reset
ReleaseReset ==
    /\ reset = "low"
    /\ IF cart \in {"fm", "ff"} THEN reset' = "no" /\ f' = Lines(Counters(f))
                                ELSE reset' = "released" /\ UNCHANGED f
    /\ UNCHANGED <<cart, button, bus, clean, presses>>

\* The main loops of the others: the AR sets its lines first, the others their
\* counters
callbackReset ==
    /\ \/ reset = "released" /\ reset' = "half"
          /\ f' = IF cart = "ar" THEN Lines(f) ELSE Counters(f)
       \/ reset = "half" /\ reset' = "no"
          /\ f' = IF cart = "ar" THEN Counters(f) ELSE Lines(f)
    /\ pending' = Age(pending)
    /\ UNCHANGED <<cart, button, cpu, vector, clean, presses>>

FreezerNext ==
    \/ Cycle
    \/ PressFreeze \/ ReleaseFreeze \/ PressReset \/ ReleaseReset \/ callbackReset

FreezerSpec == FreezerInit /\ [][FreezerNext]_freezerVars
-----------------------------------------------------------------------------
(***************************************************************************)
(* Properties                                                              *)
(***************************************************************************)
\* The CPU is about to fetch the vector of the NMI that the button has caused
AtVector == cpu = "vector" /\ vector = "nmi" /\ clean

\* The NMI that the button causes finds the ROM of the freezer at its vector: the
\* handler counts to three in time, from wherever the program is.  Excepted is a
\* button that came during an interrupt, whose writes may be counted in part, or
\* during a reset; and the Final Cartridge III, for which see the next one.
FrozenAtVector == AtVector /\ cart # "fc3" => f.mode = "ultimax"

\* The handler of the Final Cartridge III has pulled GAME low by then
\* (kernel_fc3.cpp:424).  That is Ultimax, and the cartridge's ROM is at the
\* vector, if EXROM is high; with EXROM low, when the program that is frozen has
\* the cartridge's ROMs in the memory map, it is 16k, and the CPU reads the
\* vector of the KERNAL.  A comment above (kernel_fc3.cpp:421) says "and go to
\* ultimax mode once the CPU is ready": that is the first case only.
GameLowAtVector == AtVector /\ cart = "fc3" => f.mode \in {"ultimax", "16k"}

\* The beginning or the end of the freezing changes the memory map of the program
Moves == Cycle /\ f'.freezing # f.freezing /\ f'.mode # f.mode /\ (clean \/ clean')

\* The freezer changes the memory map of the program that it freezes only in the
\* cycles in which the CPU saves its state; KCS and Super Snapshot 5 also in the
\* one in which they see the button (kernel_kcs.cpp:379, kernel_ssnap5.cpp:386),
\* although comments have them "go to ultimax mode once the CPU is ready"
\* (kernel_kcs.cpp:390, kernel_ssnap5.cpp:397): the program goes on in Ultimax
\* mode until its instruction ends.
Unmoved ==
    [][Moves => cpu \in Pushes \/ (cart \in {"kcs", "ss5"} /\ f'.freezing)]_freezerVars
=============================================================================
