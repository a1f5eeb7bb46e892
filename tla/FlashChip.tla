----------------------------- MODULE FlashChip -----------------------------
(***************************************************************************)
(* What a program on the C64 expects of the flash memory of a cartridge    *)
(* (kernel_ef.cpp, the simplified EAPI).  Writing a byte only clears bits, *)
(* erasing sets all the bits of an aligned group of banks, in one of the   *)
(* two halves, and the answer says whether that was done.  Nothing else    *)
(* changes the memory while the program runs.                              *)
(***************************************************************************)
EXTENDS Naturals

CONSTANTS Banks,        \* number of banks
          SectorBanks,  \* banks of a sector
          Bits          \* the bits of a byte

VARIABLES cells,  \* a byte for each bank and half
          reply,  \* the answer that has not been read: "none", "ok" or "error"
          running \* a program runs

vars == <<cells, reply, running>>

Halves == {"low", "high"}
Cells == (0 .. Banks - 1) \X Halves

Insert ==
    /\ ~running /\ running' = TRUE
    /\ cells' \in [Cells -> SUBSET Bits]
    /\ reply' = "none"

Remove == running /\ running' = FALSE /\ UNCHANGED <<cells, reply>>

Write(c, byte) ==
    /\ running
    /\ cells' = [cells EXCEPT ![c] = @ \cap byte]
    /\ reply' = "ok"
    /\ UNCHANGED running

Erase(sector, half) ==
    /\ running
    /\ cells' = [c \in Cells |-> IF c[1] \div SectorBanks = sector /\ c[2] = half
                                   THEN Bits ELSE cells[c]]
    /\ reply' = "ok"
    /\ UNCHANGED running

Refuse == running /\ reply' = "error" /\ UNCHANGED <<cells, running>>

\* The answer has been read, or is there again after a command without effect
Answer == running /\ reply' \in {"none", "ok"} /\ UNCHANGED <<cells, running>>

Init == cells \in [Cells -> SUBSET Bits] /\ reply = "none" /\ running = FALSE

Next ==
    \/ Insert \/ Remove \/ Refuse \/ Answer
    \/ \E c \in Cells, byte \in SUBSET Bits : Write(c, byte)
    \/ \E sector \in 0 .. Banks - 1, half \in Halves : Erase(sector, half)

Spec == Init /\ [][Next]_vars
============================================================================
