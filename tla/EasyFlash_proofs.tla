-------------------------- MODULE EasyFlash_proofs --------------------------
(***************************************************************************)
(* Proofs about EasyFlash, for every number of banks and size of a sector, *)
(* every set of chips in the file, and any number of commands and          *)
(* launches.                                                               *)
(***************************************************************************)
EXTENDS EasyFlash, TLAPS, SequenceTheorems

(***************************************************************************)
(* Sectors                                                                 *)
(***************************************************************************)
LEMMA Euclid ==
    ASSUME NEW n \in Int, NEW s \in Int, s > 0
    PROVE  n = s * (n \div s) + (n % s)
OBVIOUS

LEMMA Division ==
    ASSUME NEW n \in Nat, NEW s \in Nat \ {0}
    PROVE  /\ n \div s \in Nat /\ n % s \in Nat /\ n % s < s
           /\ n = s * (n \div s) + (n % s)
<1>1. n \div s \in Nat /\ n % s \in Nat /\ n % s < s
    OBVIOUS
<1>2. n \in Int /\ s \in Int /\ s > 0
    OBVIOUS
<1>3. n = s * (n \div s) + (n % s)
    BY <1>2, Euclid
<1> QED BY <1>1, <1>3

LEMMA Multiples ==
    ASSUME NEW p \in Nat, NEW q \in Nat, NEW s \in Nat, p < q
    PROVE  s * p \in Nat /\ s * q \in Nat /\ s * p + s <= s * q
<1> DEFINE k == q - p - 1
<1>1. k \in Nat /\ q = p + 1 + k
    OBVIOUS
<1> HIDE DEF k
<1>2. s * k \in Nat /\ s * p \in Nat
    BY <1>1
<1>3. s * (p + 1 + k) = s * p + s + s * k
    BY <1>1
<1> QED BY <1>1, <1>2, <1>3

LEMMA QuotientSmall ==
    ASSUME NEW n \in Nat, NEW s \in Nat \ {0}
    PROVE  n \div s <= n
<1> DEFINE q == n \div s
<1>1. q \in Nat /\ n >= s * q
    BY Division
<1> HIDE DEF q
<1>2. s * q = q + (s - 1) * q /\ (s - 1) * q \in Nat
    BY <1>1
<1>3. q <= n
    BY <1>1, <1>2
<1> QED BY <1>3 DEF q

LEMMA SectorOf ==
    ASSUME NEW b \in Nat, b % SectorBanks = 0
    PROVE  \A n \in Nat : n \in b .. b + SectorBanks - 1
                            <=> n \div SectorBanks = b \div SectorBanks
<1> DEFINE s == SectorBanks
<1> SUFFICES ASSUME NEW n \in Nat
             PROVE  n \in b .. b + s - 1 <=> n \div s = b \div s
    OBVIOUS
<1>0. s \in Nat \ {0} /\ b % s = 0
    BY BanksAssumption
<1> HIDE DEF s
<1> DEFINE p == n \div s
           q == b \div s
           r == n % s
<1>1. p \in Nat /\ q \in Nat /\ r \in Nat /\ r < s /\ n = s * p + r /\ b = s * q
  <2>1. p \in Nat /\ r \in Nat /\ r < s /\ n = s * p + r
    BY <1>0, Division
  <2>2. q \in Nat /\ b = s * q + (b % s)
    BY <1>0, Division
  <2>3. s * q \in Nat
    BY <1>0, <2>2
  <2> QED BY <1>0, <2>1, <2>2, <2>3
<1> HIDE DEF p, q, r
<1>2. CASE p = q
    BY <1>0, <1>1, <1>2 DEF p, q
<1>3. CASE p < q
  <2>1. s * p + s <= s * q /\ s * p \in Nat /\ s * q \in Nat
    BY <1>0, <1>1, <1>3, Multiples
  <2>2. n < b
    BY <1>0, <1>1, <2>1
  <2> QED BY <1>0, <1>1, <1>3, <2>2 DEF p, q
<1>4. CASE q < p
  <2>1. s * q + s <= s * p /\ s * p \in Nat /\ s * q \in Nat
    BY <1>0, <1>1, <1>4, Multiples
  <2>2. n >= b + s
    BY <1>0, <1>1, <2>1
  <2> QED BY <1>0, <1>1, <1>4, <2>2 DEF p, q
<1> QED BY <1>0, <1>1, <1>2, <1>3, <1>4

(***************************************************************************)
(* Types.  A command is only begun while the bound on them leaves one, and *)
(* the file lacks its contents only while it is being written.             *)
(***************************************************************************)
Bytes == {"lo", "80", "a0", "e0"}

TypeIInv ==
    /\ TypeOK
    /\ in \in Seq(Bytes)
    /\ state # "main" => commands < MaxCommands
    /\ pc # "write" => file \in [Chips -> SUBSET Bits]
    /\ pc = "menu" => ~handler
    /\ pc = "loop" => handler

LEMMA BanksTyped == 0 \in 0 .. Banks - 1
BY BanksAssumption

LEMMA InitTyped == Init => TypeIInv
<1> SUFFICES ASSUME Init PROVE TypeIInv
    OBVIOUS
<1>1. flash \in [Cells -> SUBSET Bits] /\ file \in [Chips -> SUBSET Bits]
      /\ image \in [Chips -> SUBSET Bits]
    BY DEF Init
<1>2. in \in Seq(Bytes) /\ Len(in) < 3
    BY DEF Init
<1>3. /\ bank \in 0 .. Banks - 1 /\ commands \in 0 .. MaxCommands
      /\ launches \in 0 .. MaxLaunches
    BY BanksTyped, BoundsAssumption DEF Init
<1>4. modified = FALSE /\ net = FALSE /\ handler = FALSE /\ power = TRUE
    BY DEF Init
<1> QED BY <1>1, <1>2, <1>3, <1>4 DEF Init, TypeIInv, TypeOK

LEMMA LaunchTyped == TypeIInv /\ Launch => TypeIInv'
<1> SUFFICES ASSUME TypeIInv, Launch PROVE TypeIInv'
    OBVIOUS
<1>1. file \in [Chips -> SUBSET Bits] /\ flash \in [Cells -> SUBSET Bits]
    BY DEF Launch, TypeIInv, TypeOK
<1>2. flash' \in [Cells -> SUBSET Bits]
    BY <1>1 DEF Launch, Load
<1>3. in' = <<>> /\ state' = "main" /\ reply' = "none" /\ bank' = 0
    BY DEF Launch, InitEF
<1>4. in' \in Seq(Bytes) /\ Len(in') < 3
    BY <1>3
<1>5. launches' \in 0 .. MaxLaunches
    BY BoundsAssumption DEF Launch, TypeIInv, TypeOK
<1>6. /\ net' \in BOOLEAN /\ modified' \in BOOLEAN /\ late' = {} /\ pc' = "loop" /\ handler' = TRUE
      /\ UNCHANGED <<file, image, patched, c64, commands>>
    BY DEF Launch
<1> QED BY <1>1, <1>2, <1>3, <1>4, <1>5, <1>6, BanksTyped DEF TypeIInv, TypeOK, c64

LEMMA ByteTyped == TypeIInv /\ EapiByte => TypeIInv'
<1> SUFFICES ASSUME TypeIInv, EapiByte PROVE TypeIInv'
    OBVIOUS
<1> USE DEF TypeIInv, TypeOK
<1>1. UNCHANGED <<file, image, patched, net, pc, handler, power, reset, bank, launches>>
    BY DEF EapiByte, c64
<1>2. CASE Command
  <2>1. in' \in Seq(Bytes) /\ Len(in') < 3
    <3>1. in' = in \/ in' = <<>>
        BY <1>2 DEF Command
    <3>2. <<>> \in Seq(Bytes) /\ Len(<<>>) < 3
        OBVIOUS
    <3>3. in \in Seq(Bytes) /\ Len(in) < 3
        OBVIOUS
    <3> QED BY <3>1, <3>2, <3>3, Zenon
  <2>2. /\ state' \in {"main", "write", "erase"} /\ reply' \in {"none", "ok", "error"}
        /\ state' # "main" => commands' < MaxCommands
        /\ UNCHANGED <<flash, modified, late, commands>>
    BY <1>2 DEF Command
  <2> QED BY <1>1, <2>1, <2>2
<1>3. CASE Argument /\ Len(in) < 2
  <2>1. in' \in Seq(Bytes) /\ Len(in') < 3
    <3>1. PICK x \in Bytes : in' = Append(in, x)
        BY <1>3 DEF Argument, Bytes
    <3> QED BY <1>3, <3>1
  <2>2. UNCHANGED <<flash, modified, late, commands, state, reply>>
    BY <1>3 DEF Argument
  <2> QED BY <1>1, <2>1, <2>2
<1>4. CASE Argument /\ ~(Len(in) < 2)
  <2>1. Done /\ state # "main"
        /\ \/ \E byte \in SUBSET Bits : WriteFlash(in[2], byte)
           \/ \E b \in 0 .. Banks : EraseSector(in[2], b)
    BY <1>4 DEF Argument
  <2>2. flash' \in [Cells -> SUBSET Bits] /\ reply' \in {"ok", "error"}
    BY <2>1 DEF WriteFlash, EraseSector
  <2>3. in' \in Seq(Bytes) /\ Len(in') < 3
    BY <2>1 DEF Done
  <2>4. commands' \in 0 .. MaxCommands
    BY <2>1, BoundsAssumption DEF Done
  <2>5. modified' = TRUE /\ state' = "main" /\ late' \subseteq Chips
    BY <2>1 DEF Done
  <2> QED BY <1>1, <2>2, <2>3, <2>4, <2>5
<1> QED BY <1>2, <1>3, <1>4 DEF EapiByte

LEMMA SwitchTyped ==
    ASSUME TypeIInv,
           \/ SelectBank \/ ReadReply
           \/ PressReset \/ HoldReset \/ ReleaseReset \/ SwitchOff \/ SwitchOn
    PROVE  TypeIInv'
<1> USE DEF TypeIInv, TypeOK
<1>0. <<>> \in Seq(Bytes) /\ Len(<<>>) < 3
    OBVIOUS
<1>1. CASE SelectBank \/ ReadReply
    BY <1>1 DEF SelectBank, ReadReply, saving, eapi, c64
<1>2. CASE PressReset \/ HoldReset \/ ReleaseReset \/ SwitchOff \/ SwitchOn
  <2>1. /\ power' \in BOOLEAN /\ reset' \in {"up", "low", "long"}
        /\ UNCHANGED <<flash, file, image, patched, modified, net, pc, handler, late, commands,
                       launches>>
    BY <1>2 DEF PressReset, HoldReset, ReleaseReset, SwitchOff, SwitchOn, Switch, saving
  <2>2. InitEF \/ UNCHANGED <<eapi, bank>>
    BY <1>2 DEF PressReset, HoldReset, ReleaseReset, SwitchOff, SwitchOn
  <2> QED BY <1>0, <2>1, <2>2, BanksTyped DEF InitEF, eapi
<1> QED BY <1>1, <1>2

LEMMA MainLoopTyped == TypeIInv /\ MainLoop => TypeIInv'
<1> SUFFICES ASSUME TypeIInv, MainLoop PROVE TypeIInv'
    OBVIOUS
<1> USE DEF TypeIInv, TypeOK, c64, eapi
<1>1. CASE SaveWhenOff
    BY <1>1 DEF SaveWhenOff, ReadFile
<1>2. CASE Leave
    BY <1>2 DEF Leave, ReadFile
<1>3. CASE Patch
  <2>1. /\ pc = "patch" /\ pc' \in {"patch", "write"}
        /\ UNCHANGED <<flash, modified, net, handler, power, reset, state, in, reply, bank, late,
                       commands, launches>>
    BY <1>3 DEF Patch
  <2>2. pc' # "write" => file' = file
    BY <1>3 DEF Patch
  <2>3. file' = file \/ file' = <<>>
    BY <1>3 DEF Patch
  <2>4. image' \in [Chips -> SUBSET Bits] /\ patched' \subseteq Chips
    <3>1. \A c \in Chips : flash[c] \in SUBSET Bits
        BY ChipsAssumption
    <3> QED BY <1>3, <3>1 DEF Patch
  <2> QED BY <2>1, <2>2, <2>3, <2>4
<1>4. CASE WriteFile
    BY <1>4 DEF WriteFile
<1> QED BY <1>1, <1>2, <1>3, <1>4 DEF MainLoop

LEMMA StepsTyped == TypeIInv /\ [Next]_vars => TypeIInv'
<1>1. TypeIInv /\ UNCHANGED vars => TypeIInv'
    BY DEF TypeIInv, TypeOK, vars, saving, eapi, c64
<1> QED BY <1>1, LaunchTyped, ByteTyped, SwitchTyped, MainLoopTyped DEF Next

LEMMA TypesHold == Spec => []TypeIInv
BY InitTyped, StepsTyped, PTL DEF Spec

(* Every variable keeps its type: the answer buffer holds one answer, a     *)
(* command has at most three bytes (kernel_ef.cpp, eapiReceiveByte).        *)
THEOREM FlashTypeCorrect == Spec => []TypeOK
<1>1. TypeIInv => TypeOK
    BY DEF TypeIInv
<1> QED BY <1>1, TypesHold, PTL

(***************************************************************************)
(* What is in the file                                                     *)
(***************************************************************************)
(* While the image is saved, a chip that has got its bytes agrees with the *)
(* memory or was changed since, and the changes are marked as not saved.   *)
SaveIInv ==
    /\ pc \in {"patch", "write"} =>
          modified /\ \A c \in patched : image[c] = flash[c] \/ c \in late
    /\ pc = "write" => patched = Chips

FileIInv == TypeIInv /\ SaveIInv /\ OnlyLateLost

LEMMA CommandKeepsFile ==
    ASSUME FileIInv, EapiByte
    PROVE  SaveIInv' /\ OnlyLateLost'
<1>1. UNCHANGED <<file, image, patched, net, pc, launches>>
    BY DEF EapiByte
<1>2. CASE UNCHANGED <<flash, modified, late>>
    BY <1>1, <1>2 DEF FileIInv, SaveIInv, OnlyLateLost
<1>3. CASE Done
  <2>1. modified' = TRUE
        /\ late' = late \cup {c \in patched : pc \in {"patch", "write"} /\ flash'[c] # flash[c]}
    BY <1>3 DEF Done, Changed
  <2>2. OnlyLateLost'
    BY <2>1 DEF OnlyLateLost
  <2>3. pc \in {"patch", "write"} =>
           \A c \in patched : image[c] = flash'[c] \/ c \in late'
    BY <2>1 DEF FileIInv, SaveIInv
  <2>4. pc = "write" => patched = Chips
    BY DEF FileIInv, SaveIInv
  <2> QED BY <1>1, <2>1, <2>2, <2>3, <2>4 DEF SaveIInv
<1> QED BY <1>2, <1>3 DEF EapiByte, Command, Argument

LEMMA FileStep ==
    ASSUME FileIInv, [Next]_vars
    PROVE  SaveIInv' /\ OnlyLateLost'
<1>1. CASE Launch
  <2>1. pc' = "loop" /\ UNCHANGED file
        /\ \/ net' = TRUE
           \/ net' = FALSE /\ flash' = [c \in Cells |-> IF c \in Chips THEN file[c] ELSE flash[c]]
    BY <1>1 DEF Launch, Load
  <2>2. ~net' => \A c \in Chips : flash'[c] = file[c]
    BY <2>1, ChipsAssumption
  <2> QED BY <2>1, <2>2 DEF SaveIInv, OnlyLateLost
<1>2. CASE EapiByte
    BY <1>2, CommandKeepsFile
<1>3. CASE \/ SelectBank \/ ReadReply \/ PressReset \/ HoldReset \/ ReleaseReset
           \/ SwitchOff \/ SwitchOn \/ UNCHANGED vars
  <2>1. UNCHANGED <<flash, file, image, patched, modified, net, pc, late, launches>>
    BY <1>3 DEF SelectBank, ReadReply, PressReset, HoldReset, ReleaseReset, SwitchOff, SwitchOn,
                Switch, vars, saving
  <2> QED BY <2>1 DEF FileIInv, SaveIInv, OnlyLateLost
<1>4. CASE SaveWhenOff
  <2>1. UNCHANGED <<flash, file, modified, net, launches>> /\ modified = TRUE
        /\ ((pc' = "halted" /\ UNCHANGED late) \/ (pc' = "patch" /\ patched' = {}))
    BY <1>4 DEF SaveWhenOff, ReadFile, FileIInv, TypeIInv, TypeOK
  <2> QED BY <2>1 DEF FileIInv, SaveIInv, OnlyLateLost
<1>5. CASE Leave
  <2>1. CASE modified
    <3>1. UNCHANGED <<flash, file, modified, net, launches>>
          /\ ((pc' = "halted" /\ UNCHANGED late) \/ (pc' = "patch" /\ patched' = {}))
        BY <1>5, <2>1 DEF Leave, ReadFile
    <3> QED BY <2>1, <3>1 DEF FileIInv, SaveIInv, OnlyLateLost
  <2>2. CASE ~modified
    <3>1. UNCHANGED <<flash, file, modified, net, launches, late>> /\ pc' = "menu"
        BY <1>5, <2>2 DEF Leave
    <3> QED BY <3>1 DEF FileIInv, SaveIInv, OnlyLateLost
  <2> QED BY <2>1, <2>2
<1>6. CASE Patch
  <2>0. UNCHANGED <<flash, modified, net, late, launches>> /\ pc = "patch"
    BY <1>6 DEF Patch
  <2>1. ASSUME NEW c \in Chips \ patched,
               image' = [image EXCEPT ![c] = flash[c]], patched' = patched \cup {c},
               UNCHANGED <<pc, file>>
        PROVE  SaveIInv' /\ OnlyLateLost'
    <3>1. \A d \in patched' : image'[d] = flash'[d] \/ d \in late'
      <4>1. image \in [Chips -> SUBSET Bits] /\ patched \subseteq Chips
          BY DEF FileIInv, TypeIInv, TypeOK
      <4>2. \A d \in patched : image[d] = flash[d] \/ d \in late
          BY <2>0 DEF FileIInv, SaveIInv
      <4> QED BY <2>0, <2>1, <4>1, <4>2
    <3>2. modified'
        BY <2>0 DEF FileIInv, SaveIInv
    <3>3. OnlyLateLost'
        BY <3>2 DEF OnlyLateLost
    <3> QED BY <2>0, <2>1, <3>1, <3>2, <3>3 DEF SaveIInv
  <2>2. CASE patched = Chips /\ pc' = "write" /\ file' = <<>> /\ UNCHANGED <<image, patched>>
    BY <2>0, <2>2 DEF FileIInv, SaveIInv, OnlyLateLost
  <2> QED BY <1>6, <2>1, <2>2 DEF Patch
<1>7. CASE WriteFile
  <2>1. pc = "write" /\ file' = image /\ pc' \in {"loop", "menu"} /\ UNCHANGED <<flash, late>>
    BY <1>7 DEF WriteFile
  <2>2. \A c \in Chips : file'[c] = flash'[c] \/ c \in late'
    BY <2>1 DEF FileIInv, SaveIInv
  <2> QED BY <2>1, <2>2 DEF SaveIInv, OnlyLateLost
<1> QED BY <1>1, <1>2, <1>3, <1>4, <1>5, <1>6, <1>7 DEF Next, MainLoop

(* What a program wrote to the flash memory is in the file, still marked    *)
(* as not saved, or was written while the main loop saved                   *)
(* (KernelEFRun, writeChanges2CRTFile).                                     *)
THEOREM OnlyLateWritesLost == Spec => []OnlyLateLost
<1>1. Init => FileIInv
  <2>1. Init => SaveIInv /\ OnlyLateLost
    BY DEF Init, SaveIInv, OnlyLateLost
  <2> QED BY <2>1, InitTyped DEF FileIInv
<1>2. FileIInv /\ [Next]_vars => FileIInv'
    BY FileStep, StepsTyped DEF FileIInv
<1>3. FileIInv => OnlyLateLost
    BY DEF FileIInv
<1> QED BY <1>1, <1>2, <1>3, PTL DEF Spec

(***************************************************************************)
(* The cartridge implements the flash chip                                 *)
(***************************************************************************)
LEMMA EraseIsErase ==
    ASSUME TypeIInv, handler, NEW hi, NEW b \in 0 .. Banks, EraseSector(hi, b),
           UNCHANGED handler
    PROVE  Chip!Next
<1>1. CASE b >= Banks \/ b % SectorBanks # 0
    BY <1>1 DEF EraseSector, Chip!Next, Chip!Refuse
<1>2. CASE ~(b >= Banks \/ b % SectorBanks # 0)
  <2> DEFINE half == IF hi = "80" THEN "low" ELSE "high"
             sector == b \div SectorBanks
  <2>1. /\ reply' = "ok"
        /\ flash' = [c \in Cells |->
                       IF c[1] \in b .. b + SectorBanks - 1 /\ c[2] = half
                         THEN Bits ELSE flash[c]]
    BY <1>2 DEF EraseSector
  <2>2. b \in Nat /\ b < Banks /\ b % SectorBanks = 0
    BY <1>2, BanksAssumption
  <2>3. sector \in 0 .. Banks - 1
    BY <2>2, BanksAssumption, QuotientSmall, Division
  <2> HIDE DEF half
  <2>4. \A c \in Cells : c[1] \in b .. b + SectorBanks - 1 <=> c[1] \div SectorBanks = sector
    <3> SUFFICES ASSUME NEW c \in Cells
                 PROVE  c[1] \in b .. b + SectorBanks - 1 <=> c[1] \div SectorBanks = sector
        OBVIOUS
    <3>1. c[1] \in Nat
        BY DEF Cells
    <3> QED BY <2>2, <3>1, SectorOf
  <2> HIDE DEF sector
  <2>5. flash' = [c \in Cells |-> IF c[1] \div SectorBanks = sector /\ c[2] = half
                                    THEN Bits ELSE flash[c]]
    BY <2>1, <2>4
  <2>6. Cells = Chip!Cells /\ half \in Chip!Halves
    BY DEF Cells, Halves, Chip!Cells, Chip!Halves, half
  <2>7. Chip!Erase(sector, half)
    BY <2>1, <2>5, <2>6 DEF Chip!Erase
  <2> QED BY <2>3, <2>6, <2>7 DEF Chip!Next
<1> QED BY <1>1, <1>2

LEMMA WriteIsWrite ==
    ASSUME TypeIInv, handler, NEW hi, NEW byte \in SUBSET Bits, WriteFlash(hi, byte),
           UNCHANGED handler
    PROVE  Chip!Next
<1> DEFINE c == <<bank, IF hi = "e0" THEN "high" ELSE "low">>
<1>1. c \in Chip!Cells
    BY DEF TypeIInv, TypeOK, Chip!Cells, Chip!Halves
<1>2. flash' = [flash EXCEPT ![c] = @ \cap byte] /\ reply' = "ok"
    BY DEF WriteFlash
<1> HIDE DEF c
<1>3. Chip!Write(c, byte)
    BY <1>2 DEF Chip!Write
<1> QED BY <1>1, <1>3 DEF Chip!Next

(* However a reset, the power switch and the saving main loop cut in, a     *)
(* program sees a flash chip: bytes of unfinished commands have no effect,  *)
(* and "ok" answers only what was done (kernel_ef.cpp, eapiReceiveByte,     *)
(* initEF, KernelEFFIQHandler).                                             *)
THEOREM EapiImplementsChip == Spec => ChipSpec
<1>1. Init => Chip!Init
    BY DEF Init, Chip!Init, Cells, Halves, Chip!Cells, Chip!Halves
<1>2. TypeIInv /\ TypeIInv' /\ [Next]_vars => [Chip!Next]_(Chip!vars)
  <2> SUFFICES ASSUME TypeIInv, TypeIInv', [Next]_vars
               PROVE  Chip!Next \/ UNCHANGED <<flash, reply, handler>>
    BY DEF Chip!vars
  <2>1. CASE Launch
    <3>1. ~handler /\ handler' = TRUE /\ reply' = "none"
        BY <2>1 DEF Launch, InitEF, TypeIInv
    <3>2. flash' \in [Chip!Cells -> SUBSET Bits]
      <4>1. flash' \in [Cells -> SUBSET Bits]
          BY DEF TypeIInv, TypeOK
      <4> QED BY <4>1 DEF Cells, Halves, Chip!Cells, Chip!Halves
    <3> QED BY <3>1, <3>2 DEF Chip!Next, Chip!Insert
  <2>2. CASE EapiByte
    <3>1. handler /\ UNCHANGED handler
        BY <2>2 DEF EapiByte, Runs
    <3>2. CASE Command \/ (Argument /\ Len(in) < 2)
        BY <3>1, <3>2 DEF Command, Argument, Chip!Next, Chip!Answer
    <3>3. CASE Argument /\ ~(Len(in) < 2)
      <4>1. \/ \E byte \in SUBSET Bits : WriteFlash(in[2], byte)
            \/ \E b \in 0 .. Banks : EraseSector(in[2], b)
          BY <3>3 DEF Argument
      <4> QED BY <3>1, <4>1, WriteIsWrite, EraseIsErase
    <3> QED BY <2>2, <3>2, <3>3 DEF EapiByte
  <2>3. CASE ReadReply
    BY <2>3 DEF ReadReply, Runs, Chip!Next, Chip!Answer
  <2>4. CASE PressReset \/ SwitchOn
    BY <2>4 DEF PressReset, SwitchOn, Switch, InitEF, eapi, Chip!Next, Chip!Answer
  <2>5. CASE SelectBank \/ HoldReset \/ ReleaseReset \/ SwitchOff \/ UNCHANGED vars
    BY <2>5 DEF SelectBank, HoldReset, ReleaseReset, SwitchOff, Switch, eapi, vars
  <2>6. CASE SaveWhenOff \/ Patch \/ WriteFile
    BY <2>6 DEF SaveWhenOff, Patch, WriteFile, eapi
  <2>7. CASE Leave
    BY <2>7 DEF Leave, TypeIInv, eapi, Chip!Next, Chip!Remove
  <2> QED BY <2>1, <2>2, <2>3, <2>4, <2>5, <2>6, <2>7 DEF Next, MainLoop
<1> QED BY <1>1, <1>2, TypesHold, PTL DEF Spec, ChipSpec, Chip!Spec
=============================================================================
