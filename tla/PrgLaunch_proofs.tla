-------------------------- MODULE PrgLaunch_proofs --------------------------
(***************************************************************************)
(* Proofs about PrgLaunch, for all sizes of pages and memory, all programs *)
(* that the assumptions admit, and any number of resets and hangs.         *)
(***************************************************************************)
EXTENDS PrgLaunch, Integers, TLAPS

(***************************************************************************)
(* Sizes                                                                   *)
(***************************************************************************)
LEMMA Euclid ==
    ASSUME NEW n \in Int, NEW s \in Int, s > 0
    PROVE  n = s * (n \div s) + (n % s) /\ n % s >= 0 /\ n % s < s
OBVIOUS

LEMMA QuotientTyped ==
    ASSUME NEW a \in Nat, NEW b \in Nat \ {0}
    PROVE  a \div b \in Nat
OBVIOUS

(* The pages of a part hold it, and less than a page more.                  *)
LEMMA PagesHold ==
    ASSUME NEW n \in Nat
    PROVE  /\ PagesOf(n) \in Nat
           /\ PagesOf(n) * Page \in Nat
           /\ n <= PagesOf(n) * Page /\ PagesOf(n) * Page < n + Page
<1> DEFINE m == n + Page - 1
           q == PagesOf(n)
           r == m % Page
<1>1. Page \in Int /\ Page > 0 /\ Page \in Nat \ {0} /\ m \in Int /\ m \in Nat
    BY MemoryAssumption
<1>2. q \in Nat
    BY <1>1, QuotientTyped DEF PagesOf
<1>3. m = Page * q + r /\ r >= 0 /\ r < Page
  <2> HIDE DEF m
  <2>1. m = Page * (m \div Page) + (m % Page) /\ m % Page >= 0 /\ m % Page < Page
    BY <1>1, Euclid
  <2>2. q = m \div Page
    BY DEF PagesOf, m
  <2> QED BY <2>1, <2>2
<1>4. r \in Int
    BY <1>1
<1> HIDE DEF q, r
<1>5. Page * q = q * Page /\ q * Page \in Nat
    BY <1>1, <1>2
<1> QED BY <1>1, <1>2, <1>3, <1>4, <1>5 DEF q

LEMMA SomePages ==
    ASSUME NEW n \in Nat, n # 0
    PROVE  0 < n * Page
BY MemoryAssumption

LEMMA InPage ==
    ASSUME NEW n \in Nat, n + Page <= Top
    PROVE  PagesOf(n) < 256 /\ PagesOf(n) % 256 = PagesOf(n)
<1>1. PagesOf(n) \in Nat /\ PagesOf(n) * Page \in Nat /\ PagesOf(n) * Page < n + Page
    BY PagesHold
<1>2. Page \in Nat /\ Page > 0 /\ Top \in Nat /\ Top <= 256 * Page
    BY MemoryAssumption
<1> DEFINE q == PagesOf(n)
<1>3. q < 256
  <2> SUFFICES ASSUME q >= 256 PROVE FALSE
    BY <1>1
  <2> DEFINE k == q - 256
  <2>1. k \in Nat /\ q = 256 + k
    BY <1>1
  <2> HIDE DEF k, q
  <2>2. q * Page = 256 * Page + k * Page /\ k * Page \in Nat
    BY <1>2, <2>1
  <2>3. q * Page < n + Page
    BY <1>1 DEF q
  <2> QED BY <1>2, <2>2, <2>3
<1> QED BY <1>1, <1>3

(***************************************************************************)
(* Types                                                                   *)
(***************************************************************************)
Fits(p) ==
    /\ p.start \in Nat /\ p.size \in Nat /\ p.size >= 3
    /\ p.start < Top /\ p.start # Split /\ p.start + p.size + Page <= Top + 1
    /\ Low <= p.start

(* The buffer and all that the loader writes for itself lie below Split.    *)
LEMMA Layout ==
    /\ Low \in Nat /\ Buffer \in Nat /\ Split \in Nat /\ Top \in Nat
    /\ Low <= Buffer /\ Buffer < Split /\ Split < Top /\ Buffer + (Top - Split) <= Split
    /\ \A a \in Loader : a < Buffer
BY MemoryAssumption

LEMMA ProgramsFit == \A p \in Programs : Fits(p)
BY ProgramsAssumption, MemoryAssumption DEF Fits

LEMMA BytesTyped ==
    ASSUME prg \in Programs
    PROVE  \A o \in Nat : Byte(o) \in Nat
BY ProgramsFit DEF Fits, Byte, Junk

(* What the two parts are: the lower one ends at Split or with the program, *)
(* the upper one is counted with two bytes more.                            *)
LEMMA Parts ==
    ASSUME prg \in Programs
    PROVE  /\ PrgSizeBelow \in Nat /\ PrgSizeAbove \in Nat
           /\ PrgSizeBelow >= 1 /\ PrgSizeBelow <= prg.size - 2
           /\ \/ PrgSizeAbove = 0 /\ PrgSizeBelow = prg.size - 2
              \/ /\ prg.start + PrgSizeBelow = Split
                 /\ PrgSizeAbove = prg.size - PrgSizeBelow
BY ProgramsFit, MemoryAssumption DEF Fits, PrgSizeBelow, PrgSizeAbove

LEMMA PartsFit ==
    ASSUME prg \in Programs
    PROVE  /\ PagesOf(PrgSizeBelow) % 256 = PagesOf(PrgSizeBelow)
           /\ PagesOf(PrgSizeAbove) % 256 = PagesOf(PrgSizeAbove)
           /\ PagesOf(PrgSizeBelow) # 0
           /\ PagesOf(PrgSizeAbove) # 0 <=> PrgSizeAbove # 0
           /\ prg.start + PagesOf(PrgSizeBelow) * Page <= Top
           /\ PrgSizeAbove # 0 => Split + PagesOf(PrgSizeAbove) * Page <= Top
           /\ PrgSizeAbove # 0 => Buffer + PagesOf(PrgSizeAbove) * Page <= Split
           /\ prg.start + PagesOf(PrgSizeBelow) * Page <= End + Page
           /\ PrgSizeAbove # 0 => Split + PagesOf(PrgSizeAbove) * Page < End + Page + 2
<1>1. Fits(prg) /\ Page \in Nat /\ Page >= 1 /\ Top \in Nat /\ Split \in Nat
    BY ProgramsFit, MemoryAssumption
<1>2. /\ PrgSizeBelow \in Nat /\ PrgSizeAbove \in Nat
      /\ PrgSizeBelow >= 1 /\ PrgSizeBelow <= prg.size - 2
      /\ \/ PrgSizeAbove = 0 /\ PrgSizeBelow = prg.size - 2
         \/ /\ prg.start + PrgSizeBelow = Split
            /\ PrgSizeAbove = prg.size - PrgSizeBelow
    BY Parts
<1>3. /\ PagesOf(PrgSizeBelow) \in Nat /\ PagesOf(PrgSizeBelow) * Page \in Nat
      /\ PrgSizeBelow <= PagesOf(PrgSizeBelow) * Page
      /\ PagesOf(PrgSizeBelow) * Page < PrgSizeBelow + Page
    BY <1>2, PagesHold
<1>4. /\ PagesOf(PrgSizeAbove) \in Nat /\ PagesOf(PrgSizeAbove) * Page \in Nat
      /\ PrgSizeAbove <= PagesOf(PrgSizeAbove) * Page
      /\ PagesOf(PrgSizeAbove) * Page < PrgSizeAbove + Page
    BY <1>2, PagesHold
<1>5. PrgSizeBelow + Page <= Top /\ PrgSizeAbove + Page <= Top
    BY <1>1, <1>2 DEF Fits
<1>6. /\ PagesOf(PrgSizeBelow) % 256 = PagesOf(PrgSizeBelow)
      /\ PagesOf(PrgSizeAbove) % 256 = PagesOf(PrgSizeAbove)
    BY <1>2, <1>5, InPage
<1>7. \A q \in Nat : q * Page = 0 <=> q = 0
    BY <1>1
<1>8. PagesOf(PrgSizeBelow) # 0
    BY <1>2, <1>3, <1>7
<1>9. PagesOf(PrgSizeAbove) # 0 <=> PrgSizeAbove # 0
  <2>1. CASE PrgSizeAbove = 0
    <3> DEFINE q == PagesOf(PrgSizeAbove)
    <3>1. q \in Nat /\ q * Page < Page
        BY <1>1, <1>4, <2>1
    <3> HIDE DEF q
    <3>2. q = 0
      <4> SUFFICES ASSUME q # 0 PROVE FALSE
          OBVIOUS
      <4> DEFINE k == q - 1
      <4>1. k \in Nat /\ q = k + 1
          BY <3>1
      <4> HIDE DEF k
      <4>2. q * Page = k * Page + Page /\ k * Page \in Nat
          BY <1>1, <4>1
      <4> QED BY <1>1, <3>1, <4>2
    <3> QED BY <2>1, <3>2 DEF q
  <2>2. CASE PrgSizeAbove # 0
    BY <1>2, <1>4, <1>7, <2>2
  <2> QED BY <2>1, <2>2
<1>10. /\ prg.start + PagesOf(PrgSizeBelow) * Page <= Top
       /\ prg.start + PagesOf(PrgSizeBelow) * Page <= End + Page
    BY <1>1, <1>2, <1>3 DEF Fits, End
<1>11. PrgSizeAbove # 0 =>
         /\ Split + PagesOf(PrgSizeAbove) * Page <= Top
         /\ Split + PagesOf(PrgSizeAbove) * Page < End + Page + 2
    BY <1>1, <1>2, <1>4 DEF Fits, End
<1>12. PrgSizeAbove # 0 => Buffer + PagesOf(PrgSizeAbove) * Page <= Split
    BY <1>1, <1>4, <1>11, Layout
<1> QED BY <1>6, <1>8, <1>9, <1>10, <1>11, <1>12

(***************************************************************************)
(* The invariant                                                           *)
(***************************************************************************)
Places == {"boot", "hung", "basic", "install", "askUpper", "upperPages", "upper", "copy",
           "askLower", "lowerPages", "address", "lower", "start", "run"}

TypeIInv ==
    /\ prg \in Programs /\ pc \in Places
    /\ currentOfs \in Nat /\ pages \in Nat /\ done \in Nat /\ dest \in Nat
    /\ mem \in [0 .. Top - 1 -> Nat]

(* Whatever has been written, by this transfer or by one that a reset has   *)
(* cut off, is the loader's own, the program's, or in the buffer.           *)
Allowed(a) ==
    \/ a < Low \/ a \in Loader
    \/ a >= prg.start /\ a < End + Page + 2
    \/ a >= Buffer /\ a < Buffer + PagesOf(PrgSizeAbove) * Page

MemIInv == \A a \in 0 .. Top - 1 : mem[a] # 0 => Allowed(a)

(* Where the loader and the handler are in the file.                        *)
UpperIInv ==
    /\ pc = "upperPages" => transferPart = 1 /\ currentOfs = PrgSizeBelow + 2
    /\ pc = "upper" => currentOfs = PrgSizeBelow + 2 + done
    /\ pc \in {"upper", "copy"} => /\ PrgSizeAbove # 0 /\ pages = PagesOf(PrgSizeAbove)
                                   /\ done < pages * Page

LowerIInv ==
    /\ pc = "lowerPages" => transferPart = 0 /\ currentOfs = 0
    /\ pc \in {"address", "lower"} => pages = PagesOf(PrgSizeBelow)
    /\ pc = "address" => currentOfs = 0 /\ done = 0
    /\ pc = "lower" => /\ currentOfs = 2 + done /\ dest = prg.start
                       /\ done < pages * Page

LatchIInv ==
    pc \in {"upperPages", "upper", "lowerPages", "address", "lower"} =>
       latched = Byte(currentOfs)

(* What is in its place already, and in the buffer.                         *)
Right(from, to) ==
    \A a \in 0 .. Top - 1 : from <= a /\ a < to => mem[a] = Byte(a - prg.start + 2)

Buffered(n) ==
    \A a \in 0 .. Top - 1 :
       Buffer <= a /\ a < Buffer + n => mem[a] = Byte(a - Buffer + PrgSizeBelow + 2)

AfterCopy == {"askLower", "lowerPages", "address", "lower", "start", "run"}

CopyIInv ==
    /\ pc = "upper" => Buffered(done)
    /\ pc = "copy" => Buffered(pages * Page) /\ Right(Split, Split + done)
    /\ pc \in AfterCopy => (PrgSizeAbove # 0 => Right(Split, Split + PrgSizeAbove))
    /\ pc = "lower" => Right(prg.start, prg.start + done)
    /\ pc \in {"start", "run"} => Right(prg.start, prg.start + PrgSizeBelow)

PlaceIInv == UpperIInv /\ LowerIInv /\ LatchIInv /\ CopyIInv

LoadIInv == TypeIInv /\ MemIInv /\ PlaceIInv

LEMMA InitInvariant == Init => LoadIInv
<1> SUFFICES ASSUME Init PROVE LoadIInv
    OBVIOUS
<1>1. /\ prg \in Programs /\ pc = "boot" /\ currentOfs = 0 /\ pages = 0 /\ done = 0 /\ dest = 0
      /\ mem = [a \in 0 .. Top - 1 |-> 0]
    BY DEF Init
<1> QED
    BY <1>1 DEF LoadIInv, TypeIInv, Places, MemIInv, PlaceIInv, UpperIInv, LowerIInv, LatchIInv,
                CopyIInv, AfterCopy

LEMMA ProgramKept ==
    ASSUME UNCHANGED prg
    PROVE  /\ PrgSizeBelow' = PrgSizeBelow /\ PrgSizeAbove' = PrgSizeAbove /\ End' = End
           /\ \A o : Byte(o)' = Byte(o)
           /\ \A a : Allowed(a)' = Allowed(a)
BY DEF PrgSizeBelow, PrgSizeAbove, End, Byte, Junk, Allowed

(* Steps that do not write.                                                 *)
LEMMA MemKept ==
    ASSUME MemIInv, UNCHANGED <<prg, mem>>
    PROVE  MemIInv'
BY ProgramKept DEF MemIInv

LEMMA RightKept ==
    ASSUME UNCHANGED <<prg, mem>>
    PROVE  /\ \A m, n : Right(m, n)' = Right(m, n)
           /\ \A n : Buffered(n)' = Buffered(n)
BY ProgramKept DEF Right, Buffered

(* The C64 boots, hangs, or waits in BASIC.                                 *)
LEMMA BootKeeps ==
    ASSUME LoadIInv, ReadRom \/ Hang \/ ResetAgain \/ ShortReset \/ Relaunch
    PROVE  LoadIInv'
<1>1. pc' \in {"boot", "hung", "basic", "install"}
    BY DEF ReadRom, Hang, ResetAgain, ShortReset, Relaunch
<1>2. PlaceIInv'
    BY <1>1 DEF PlaceIInv, UpperIInv, LowerIInv, LatchIInv, CopyIInv, AfterCopy
<1>3. CASE Relaunch
  <2>1. /\ prg' \in Programs /\ currentOfs' = 0 /\ mem' = [a \in 0 .. Top - 1 |-> 0]
        /\ UNCHANGED <<pages, done, dest>>
    BY <1>3 DEF Relaunch, loader
  <2> QED BY <1>1, <1>2, <2>1 DEF LoadIInv, TypeIInv, Places, MemIInv
<1>4. CASE ReadRom \/ Hang \/ ResetAgain \/ ShortReset
  <2>1. UNCHANGED <<prg, mem, currentOfs, pages, done, dest>>
    BY <1>4 DEF ReadRom, Hang, ResetAgain, ShortReset, handler, loader
  <2> QED BY <1>1, <1>2, <2>1, MemKept DEF LoadIInv, TypeIInv, Places
<1> QED BY <1>3, <1>4

LEMMA StutterKeeps ==
    ASSUME LoadIInv, SeeRead \/ UnlockModem \/ UNCHANGED vars
    PROVE  LoadIInv'
<1>1. UNCHANGED <<prg, pc, mem, currentOfs, transferPart, latched, pages, done, dest>>
    BY DEF SeeRead, UnlockModem, vars, handler, loader
<1>2. TypeIInv' /\ MemIInv'
    BY <1>1, MemKept DEF LoadIInv, TypeIInv
<1>3. UpperIInv' /\ LowerIInv' /\ LatchIInv'
    BY <1>1, ProgramKept DEF LoadIInv, PlaceIInv, UpperIInv, LowerIInv, LatchIInv
<1>4. CopyIInv'
    BY <1>1, ProgramKept, RightKept DEF LoadIInv, PlaceIInv, CopyIInv, Right, Buffered
<1> QED BY <1>2, <1>3, <1>4 DEF LoadIInv, PlaceIInv

(* What the C64 writes for itself leaves what lies above as it is.          *)
LEMMA UsedTyped ==
    ASSUME mem \in [0 .. Top - 1 -> Nat], NEW A, mem' = Used(A)
    PROVE  /\ mem' \in [0 .. Top - 1 -> Nat]
           /\ \A a \in 0 .. Top - 1 : a \notin A => mem'[a] = mem[a]
BY Layout DEF Used, Code

LEMMA InstallKeeps ==
    ASSUME LoadIInv, InstallLoader
    PROVE  LoadIInv'
<1>1. /\ prg \in Programs /\ mem \in [0 .. Top - 1 -> Nat]
      /\ pc' = "askUpper" /\ mem' = Used((0 .. Low - 1) \cup Loader)
      /\ UNCHANGED <<prg, currentOfs, pages, done, dest>>
    BY DEF InstallLoader, LoadIInv, TypeIInv, handler, loader
<1>2. TypeIInv'
    BY <1>1, UsedTyped DEF LoadIInv, TypeIInv, Places
<1>3. MemIInv'
  <2> SUFFICES ASSUME NEW a \in 0 .. Top - 1, mem'[a] # 0 PROVE Allowed(a)
    BY <1>1, ProgramKept DEF MemIInv
  <2>1. CASE a \in (0 .. Low - 1) \cup Loader
    BY <2>1, Layout DEF Allowed
  <2>2. CASE a \notin (0 .. Low - 1) \cup Loader
    BY <1>1, <2>2, UsedTyped DEF LoadIInv, MemIInv
  <2> QED BY <2>1, <2>2
<1>4. PlaceIInv'
    BY <1>1 DEF PlaceIInv, UpperIInv, LowerIInv, LatchIInv, CopyIInv, AfterCopy
<1> QED BY <1>2, <1>3, <1>4 DEF LoadIInv

(* The accesses that begin a part.                                          *)
LEMMA AskKeeps ==
    ASSUME LoadIInv, AskUpper \/ AskLower
    PROVE  LoadIInv'
<1>1. prg \in Programs
    BY DEF LoadIInv, TypeIInv
<1>2. UNCHANGED <<prg, mem, pages, done, dest>>
    BY DEF AskUpper, AskLower, loader
<1>3. MemIInv'
    BY <1>2, MemKept DEF LoadIInv
<1>4. CASE AskUpper
  <2>1. /\ pc' = "upperPages" /\ transferPart' = 1 /\ currentOfs' = PrgSizeBelow + 2
        /\ latched' = Byte(PrgSizeBelow + 2)
    BY <1>4 DEF AskUpper
  <2>2. currentOfs' \in Nat
    BY <1>1, <2>1, Parts
  <2>3. TypeIInv'
    BY <1>2, <2>1, <2>2 DEF LoadIInv, TypeIInv, Places
  <2>4. PlaceIInv'
    BY <1>2, <2>1, ProgramKept
       DEF PlaceIInv, UpperIInv, LowerIInv, LatchIInv, CopyIInv, AfterCopy
  <2> QED BY <1>3, <2>3, <2>4 DEF LoadIInv
<1>5. CASE AskLower
  <2>1. /\ pc = "askLower" /\ pc' = "lowerPages" /\ transferPart' = 0 /\ currentOfs' = 0
        /\ latched' = Byte(0)
    BY <1>5 DEF AskLower
  <2>2. TypeIInv'
    BY <1>2, <2>1 DEF LoadIInv, TypeIInv, Places
  <2>3. PrgSizeAbove' # 0 => Right(Split, Split + PrgSizeAbove)'
    BY <1>2, <2>1, ProgramKept DEF LoadIInv, PlaceIInv, CopyIInv, AfterCopy, Right
  <2>4. PlaceIInv'
    BY <1>2, <2>1, <2>3, ProgramKept
       DEF PlaceIInv, UpperIInv, LowerIInv, LatchIInv, CopyIInv, AfterCopy
  <2> QED BY <1>3, <2>2, <2>4 DEF LoadIInv
<1> QED BY <1>4, <1>5

LEMMA StartKeeps ==
    ASSUME LoadIInv, StartProgram
    PROVE  LoadIInv'
<1>1. /\ prg \in Programs /\ mem \in [0 .. Top - 1 -> Nat]
      /\ pc = "start" /\ pc' = "run" /\ mem' = Used(0 .. Low - 1) /\ currentOfs' = 0
      /\ UNCHANGED <<prg, pages, done, dest>>
    BY DEF StartProgram, LoadIInv, TypeIInv, loader
<1>2. /\ mem' \in [0 .. Top - 1 -> Nat]
      /\ \A a \in 0 .. Top - 1 : a \notin 0 .. Low - 1 => mem'[a] = mem[a]
    BY <1>1, UsedTyped
<1>3. TypeIInv'
    BY <1>1, <1>2 DEF LoadIInv, TypeIInv, Places
<1>4. MemIInv'
  <2> SUFFICES ASSUME NEW a \in 0 .. Top - 1, mem'[a] # 0 PROVE Allowed(a)
    BY <1>1, ProgramKept DEF MemIInv
  <2>1. CASE a \in 0 .. Low - 1
    BY <2>1, Layout DEF Allowed
  <2>2. CASE a \notin 0 .. Low - 1
    BY <1>2, <2>2 DEF LoadIInv, MemIInv
  <2> QED BY <2>1, <2>2
<1>5. /\ Low <= prg.start /\ prg.start \in Nat /\ Low \in Nat /\ Split \in Nat /\ Low <= Split
    BY <1>1, ProgramsFit, Layout DEF Fits
<1>6. \A a \in 0 .. Top - 1 : a >= prg.start \/ a >= Split => mem'[a] = mem[a]
    BY <1>2, <1>5
<1>7. /\ PrgSizeAbove # 0 => Right(Split, Split + PrgSizeAbove)
      /\ Right(prg.start, prg.start + PrgSizeBelow)
    BY <1>1 DEF LoadIInv, PlaceIInv, CopyIInv, AfterCopy
<1>8. PrgSizeAbove' # 0 => Right(Split, Split + PrgSizeAbove)'
    BY <1>1, <1>5, <1>6, <1>7, ProgramKept DEF Right
<1>9. Right(prg.start, prg.start + PrgSizeBelow)'
    BY <1>1, <1>5, <1>6, <1>7, ProgramKept DEF Right
<1>10. PlaceIInv'
    BY <1>1, <1>8, <1>9 DEF PlaceIInv, UpperIInv, LowerIInv, LatchIInv, CopyIInv
<1> QED BY <1>3, <1>4, <1>10 DEF LoadIInv

LEMMA ReadPagesKeeps ==
    ASSUME LoadIInv, ReadPages
    PROVE  LoadIInv'
<1>1. /\ prg \in Programs /\ pc \in {"upperPages", "lowerPages"}
      /\ UNCHANGED <<prg, mem, currentOfs, transferPart, dest>>
      /\ done' = 0 /\ latched' = Byte(currentOfs)
      /\ pages' = PagesOf(IF transferPart = 1 THEN PrgSizeAbove ELSE PrgSizeBelow) % 256
      /\ pc' = IF pc = "lowerPages" THEN "address"
                ELSE IF pages' = 0 THEN "askLower" ELSE "upper"
    BY DEF ReadPages, LoadIInv, TypeIInv
<1>2. MemIInv'
    BY <1>1, MemKept DEF LoadIInv
<1>3. /\ PrgSizeBelow \in Nat /\ PrgSizeAbove \in Nat
      /\ PagesOf(PrgSizeBelow) \in Nat /\ PagesOf(PrgSizeAbove) \in Nat
      /\ PagesOf(PrgSizeBelow) % 256 = PagesOf(PrgSizeBelow)
      /\ PagesOf(PrgSizeAbove) % 256 = PagesOf(PrgSizeAbove)
      /\ PagesOf(PrgSizeAbove) # 0 <=> PrgSizeAbove # 0
    BY <1>1, Parts, PartsFit, PagesHold
<1>4. pages' \in Nat
    BY <1>1, <1>3
<1>5. TypeIInv'
    BY <1>1, <1>4 DEF LoadIInv, TypeIInv, Places
<1>6. CASE pc = "lowerPages"
  <2>1. pages' = PagesOf(PrgSizeBelow) /\ currentOfs = 0 /\ pc' = "address"
    BY <1>1, <1>3, <1>6 DEF LoadIInv, PlaceIInv, LowerIInv
  <2>2. PrgSizeAbove' # 0 => Right(Split, Split + PrgSizeAbove)'
    BY <1>1, <1>6, ProgramKept DEF LoadIInv, PlaceIInv, CopyIInv, AfterCopy, Right
  <2>3. PlaceIInv'
    BY <1>1, <1>6, <2>1, <2>2, ProgramKept
       DEF PlaceIInv, UpperIInv, LowerIInv, LatchIInv, CopyIInv, AfterCopy
  <2> QED BY <1>2, <1>5, <2>3 DEF LoadIInv
<1>7. CASE pc = "upperPages"
  <2>1. pages' = PagesOf(PrgSizeAbove) /\ currentOfs = PrgSizeBelow + 2
    BY <1>1, <1>3, <1>7 DEF LoadIInv, PlaceIInv, UpperIInv
  <2>2. CASE pages' = 0
    <3>1. pc' = "askLower" /\ PrgSizeAbove' = 0
        BY <1>1, <1>3, <1>7, <2>1, <2>2, ProgramKept
    <3>2. PlaceIInv'
        BY <3>1 DEF PlaceIInv, UpperIInv, LowerIInv, LatchIInv, CopyIInv, AfterCopy
    <3> QED BY <1>2, <1>5, <3>2 DEF LoadIInv
  <2>3. CASE pages' # 0
    <3>1. pc' = "upper" /\ PrgSizeAbove # 0
        BY <1>1, <1>3, <1>7, <2>1, <2>3
    <3>2. 0 < pages' * Page
        BY <1>4, <2>3, SomePages
    <3>3. Buffer \in Nat
        BY Layout
    <3>4. CopyIInv'
      <4>1. Buffered(done)'
          BY <1>1, <3>3 DEF Buffered
      <4> QED BY <3>1, <4>1 DEF CopyIInv, AfterCopy
    <3>5. UpperIInv'
        BY <1>1, <1>3, <2>1, <3>1, <3>2, ProgramKept DEF UpperIInv
    <3>6. LowerIInv' /\ LatchIInv'
        BY <1>1, <3>1, ProgramKept DEF LowerIInv, LatchIInv
    <3> QED BY <1>2, <1>5, <3>4, <3>5, <3>6 DEF LoadIInv, PlaceIInv
  <2> QED BY <2>2, <2>3
<1> QED BY <1>1, <1>6, <1>7

LEMMA FetchAddressKeeps ==
    ASSUME LoadIInv, FetchAddress
    PROVE  LoadIInv'
<1>1. /\ prg \in Programs /\ pc = "address" /\ pc' = "lower"
      /\ UNCHANGED <<prg, mem, pages, done>>
      /\ dest' = IF latched = Byte(0) THEN prg.start ELSE 0
      /\ currentOfs' = currentOfs + 2 /\ latched' = Byte(currentOfs + 2)
    BY DEF FetchAddress, LoadIInv, TypeIInv
<1>2. MemIInv'
    BY <1>1, MemKept DEF LoadIInv
<1>3. currentOfs = 0 /\ done = 0 /\ pages = PagesOf(PrgSizeBelow) /\ latched = Byte(0)
    BY <1>1 DEF LoadIInv, PlaceIInv, LowerIInv, LatchIInv
<1>4. dest' = prg.start /\ prg.start \in Nat
    BY <1>1, <1>3, ProgramsFit DEF Fits
<1>5. TypeIInv'
    BY <1>1, <1>3, <1>4 DEF LoadIInv, TypeIInv, Places
<1>6. pages \in Nat /\ pages # 0 /\ 0 < pages * Page
  <2>1. pages \in Nat /\ pages # 0
    BY <1>1, <1>3, PartsFit DEF LoadIInv, TypeIInv
  <2> QED BY <2>1, MemoryAssumption
<1>7. PrgSizeAbove' # 0 => Right(Split, Split + PrgSizeAbove)'
    BY <1>1, ProgramKept DEF LoadIInv, PlaceIInv, CopyIInv, AfterCopy, Right
<1>8. Right(prg.start, prg.start + done)'
    BY <1>1, <1>3, <1>4 DEF Right
<1>9. CopyIInv' /\ UpperIInv'
    BY <1>1, <1>7, <1>8 DEF CopyIInv, UpperIInv, AfterCopy
<1>10. LowerIInv' /\ LatchIInv'
    BY <1>1, <1>3, <1>4, <1>6, ProgramKept DEF LowerIInv, LatchIInv
<1> QED BY <1>2, <1>5, <1>9, <1>10 DEF LoadIInv, PlaceIInv

(* A byte goes to its place.                                                *)
LEMMA ByteStored ==
    ASSUME LoadIInv, NEW x \in 0 .. Top - 1, NEW b \in Nat, UNCHANGED prg,
           mem' = [mem EXCEPT ![x] = b], Allowed(x)
    PROVE  /\ MemIInv' /\ mem' \in [0 .. Top - 1 -> Nat] /\ mem'[x] = b
           /\ \A a \in 0 .. Top - 1 : a # x => mem'[a] = mem[a]
<1>1. mem \in [0 .. Top - 1 -> Nat] /\ MemIInv
    BY DEF LoadIInv, TypeIInv
<1>2. /\ mem' \in [0 .. Top - 1 -> Nat] /\ mem'[x] = b
      /\ \A a \in 0 .. Top - 1 : a # x => mem'[a] = mem[a]
    BY <1>1
<1>3. MemIInv'
    BY <1>1, <1>2, ProgramKept DEF MemIInv
<1> QED BY <1>2, <1>3

LEMMA FetchKeepsTypes ==
    ASSUME LoadIInv, NEW to, NEW next \in Places, Fetch(to, next), mem' \in [0 .. Top - 1 -> Nat]
    PROVE  TypeIInv'
BY DEF Fetch, LoadIInv, TypeIInv

LEMMA FetchUpperKeeps ==
    ASSUME LoadIInv, FetchUpper
    PROVE  LoadIInv'
<1>1. pc = "upper" /\ Fetch(Buffer, "copy") /\ prg \in Programs /\ done \in Nat
    BY DEF FetchUpper, LoadIInv, TypeIInv
<1>2. /\ currentOfs = PrgSizeBelow + 2 + done /\ PrgSizeAbove # 0
      /\ pages = PagesOf(PrgSizeAbove) /\ done < pages * Page /\ latched = Byte(currentOfs)
    BY <1>1 DEF LoadIInv, PlaceIInv, UpperIInv, LatchIInv
<1>3. /\ PrgSizeBelow \in Nat /\ PrgSizeAbove \in Nat
      /\ pages # 0 /\ Buffer + pages * Page <= Split
    BY <1>1, <1>2, Parts, PartsFit
<1>4. /\ pages * Page \in Nat /\ Split \in Nat /\ Buffer \in Nat /\ Top \in Nat /\ Split < Top
    BY <1>1, <1>2, <1>3, PagesHold, Layout
<1>5. /\ UNCHANGED <<prg, pages>> /\ currentOfs' = currentOfs + 1
      /\ latched' = Byte(currentOfs + 1)
      /\ done' = IF done + 1 = pages * Page THEN 0 ELSE done + 1
      /\ pc' = IF done + 1 = pages * Page THEN "copy" ELSE "upper"
      /\ mem' = [mem EXCEPT ![(Buffer + done) % Top] = latched]
    BY <1>1, <1>3 DEF Fetch
<1> DEFINE x == Buffer + done
<1>6. x \in 0 .. Top - 1 /\ x % Top = x /\ x >= Buffer /\ x < Buffer + pages * Page
    BY <1>1, <1>2, <1>3, <1>4
<1>7. latched \in Nat /\ mem' = [mem EXCEPT ![x] = latched] /\ Allowed(x)
  <2>1. latched \in Nat
    BY <1>1, <1>2, BytesTyped DEF LoadIInv, TypeIInv
  <2>2. Allowed(x)
    BY <1>2, <1>6 DEF Allowed
  <2>3. mem' = [mem EXCEPT ![x] = latched]
    BY <1>5, <1>6
  <2> QED BY <2>1, <2>2, <2>3
<1>8. /\ MemIInv' /\ mem' \in [0 .. Top - 1 -> Nat] /\ mem'[x] = latched
      /\ \A a \in 0 .. Top - 1 : a # x => mem'[a] = mem[a]
  <2> HIDE DEF x
  <2> QED BY <1>5, <1>6, <1>7, ByteStored
<1>9. TypeIInv'
    BY <1>1, <1>8, FetchKeepsTypes DEF Places
<1>10. \A a \in 0 .. Top - 1 :
          Buffer <= a /\ a < Buffer + done + 1 => mem'[a] = Byte(a - Buffer + PrgSizeBelow + 2)
  <2> SUFFICES ASSUME NEW a \in 0 .. Top - 1, Buffer <= a, a < Buffer + done + 1
               PROVE  mem'[a] = Byte(a - Buffer + PrgSizeBelow + 2)
    OBVIOUS
  <2>1. CASE a = x
    <3>1. a - Buffer + PrgSizeBelow + 2 = currentOfs
        BY <1>1, <1>2, <1>3, <1>4, <2>1
    <3> QED BY <1>2, <1>8, <2>1, <3>1
  <2>2. CASE a # x
    <3>1. a < Buffer + done
        BY <1>1, <1>4, <2>2
    <3> QED BY <1>1, <1>8, <2>2, <3>1 DEF LoadIInv, PlaceIInv, CopyIInv, Buffered
  <2> QED BY <2>1, <2>2
<1>11. CASE done + 1 = pages * Page
  <2>1. pc' = "copy" /\ done' = 0
    BY <1>5, <1>11
  <2>2. Buffered(pages * Page)'
    BY <1>1, <1>4, <1>5, <1>10, <1>11, ProgramKept DEF Buffered
  <2>3. Right(Split, Split + done)'
    BY <1>4, <2>1 DEF Right
  <2>4. UpperIInv'
    BY <1>1, <1>2, <1>5, <2>1, <1>11, ProgramKept DEF UpperIInv
  <2>5. LowerIInv' /\ LatchIInv' /\ CopyIInv'
    BY <2>1, <2>2, <2>3 DEF LowerIInv, LatchIInv, CopyIInv, AfterCopy
  <2> QED BY <1>8, <1>9, <2>4, <2>5 DEF LoadIInv, PlaceIInv
<1>12. CASE done + 1 # pages * Page
  <2>1. pc' = "upper" /\ done' = done + 1 /\ done' < pages' * Page
    BY <1>1, <1>2, <1>4, <1>5, <1>12
  <2>2. Buffered(done)'
    BY <1>1, <1>4, <1>5, <1>10, <2>1, ProgramKept DEF Buffered
  <2>3. UpperIInv'
    BY <1>1, <1>2, <1>3, <1>5, <2>1, ProgramKept DEF UpperIInv
  <2>4. LowerIInv' /\ LatchIInv' /\ CopyIInv'
    BY <1>5, <2>1, <2>2, ProgramKept DEF LowerIInv, LatchIInv, CopyIInv, AfterCopy
  <2> QED BY <1>8, <1>9, <2>3, <2>4 DEF LoadIInv, PlaceIInv
<1> QED BY <1>11, <1>12

(* The buffer ends below Split, so that copying does not change it.         *)
LEMMA CopyUpperKeeps ==
    ASSUME LoadIInv, CopyUpper
    PROVE  LoadIInv'
<1>1. /\ pc = "copy" /\ prg \in Programs /\ done \in Nat /\ mem \in [0 .. Top - 1 -> Nat]
      /\ mem' = [mem EXCEPT ![Split + done] = mem[Buffer + done]]
      /\ done' = IF done + 1 = pages * Page THEN 0 ELSE done + 1
      /\ pc' = IF done + 1 = pages * Page THEN "askLower" ELSE "copy"
      /\ UNCHANGED <<prg, pages, dest, currentOfs, transferPart, latched>>
    BY DEF CopyUpper, LoadIInv, TypeIInv, handler
<1>2. /\ PrgSizeAbove # 0 /\ pages = PagesOf(PrgSizeAbove) /\ done < pages * Page
      /\ Buffered(pages * Page) /\ Right(Split, Split + done)
    BY <1>1 DEF LoadIInv, PlaceIInv, UpperIInv, CopyIInv
<1>3. /\ PrgSizeBelow \in Nat /\ PrgSizeAbove \in Nat /\ prg.start + PrgSizeBelow = Split
      /\ Buffer + pages * Page <= Split
      /\ Split + pages * Page <= Top /\ Split + pages * Page < End + Page + 2
    BY <1>1, <1>2, Parts, PartsFit
<1>4. /\ pages * Page \in Nat /\ PrgSizeAbove <= pages * Page /\ Split \in Nat /\ Buffer \in Nat
      /\ Top \in Nat /\ Split < Top /\ prg.start \in Nat /\ End \in Int /\ Page \in Nat
  <2>1. pages * Page \in Nat /\ PrgSizeAbove <= pages * Page
    BY <1>2, <1>3, PagesHold
  <2>2. Page \in Nat
    BY MemoryAssumption
  <2>3. prg.start \in Nat /\ End \in Int
    BY <1>1, ProgramsFit DEF Fits, End
  <2> QED BY <2>1, <2>2, <2>3, Layout
<1>0. done \in Nat /\ done < pages * Page
    BY <1>1, <1>2
<1> DEFINE x == Split + done
           b == mem[Buffer + done]
<1>5. /\ x \in 0 .. Top - 1 /\ Buffer + done \in 0 .. Top - 1 /\ x >= Split
      /\ x >= prg.start /\ x < End + Page + 2
    BY <1>0, <1>3, <1>4
<1>6. b \in Nat /\ b = Byte(x - prg.start + 2) /\ Allowed(x)
  <2>1. Buffer <= Buffer + done /\ Buffer + done < Buffer + pages * Page
        /\ ((Buffer + done) - Buffer) + PrgSizeBelow + 2 = x - prg.start + 2
    BY <1>0, <1>3, <1>4
  <2>2. b = Byte(((Buffer + done) - Buffer) + PrgSizeBelow + 2)
    <3>1. \A a \in 0 .. Top - 1 : Buffer <= a /\ a < Buffer + pages * Page
              => mem[a] = Byte(a - Buffer + PrgSizeBelow + 2)
        BY <1>2 DEF Buffered
    <3> DEFINE y == Buffer + done
    <3>2. y \in 0 .. Top - 1 /\ Buffer <= y /\ y < Buffer + pages * Page
        BY <1>5, <2>1
    <3>3. mem[y] = Byte(y - Buffer + PrgSizeBelow + 2)
      <4> HIDE DEF y
      <4> QED BY <3>1, <3>2
    <3> QED BY <3>3
  <2>3. b \in Nat
    BY <1>1, <1>5
  <2>4. Allowed(x)
    BY <1>5 DEF Allowed
  <2> QED BY <2>1, <2>2, <2>3, <2>4
<1>7. /\ MemIInv' /\ mem' \in [0 .. Top - 1 -> Nat] /\ mem'[x] = b
      /\ \A a \in 0 .. Top - 1 : a # x => mem'[a] = mem[a]
  <2>1. mem' = [mem EXCEPT ![x] = b] /\ UNCHANGED prg
    BY <1>1
  <2> HIDE DEF x, b
  <2> QED BY <1>5, <1>6, <2>1, ByteStored
<1>8. TypeIInv'
    BY <1>1, <1>7 DEF LoadIInv, TypeIInv, Places
<1>9. \A a \in 0 .. Top - 1 :
         Split <= a /\ a < Split + done + 1 => mem'[a] = Byte(a - prg.start + 2)
  <2> SUFFICES ASSUME NEW a \in 0 .. Top - 1, Split <= a, a < Split + done + 1
               PROVE  mem'[a] = Byte(a - prg.start + 2)
    OBVIOUS
  <2>1. CASE a = x
    BY <1>6, <1>7, <2>1
  <2>2. CASE a # x
    <3>1. a < Split + done
        BY <1>1, <1>4, <2>2
    <3> QED BY <1>2, <1>7, <2>2, <3>1 DEF Right
  <2> QED BY <2>1, <2>2
<1>10. CASE done + 1 = pages * Page
  <2>1. pc' = "askLower"
    BY <1>1, <1>10
  <2>2. Right(Split, Split + PrgSizeAbove)'
    <3>1. \A a \in 0 .. Top - 1 : a < Split + PrgSizeAbove => a < Split + done + 1
        BY <1>1, <1>3, <1>4, <1>10
    <3> QED BY <1>1, <1>9, <3>1, ProgramKept DEF Right
  <2>3. PlaceIInv'
    BY <2>1, <2>2 DEF PlaceIInv, UpperIInv, LowerIInv, LatchIInv, CopyIInv, AfterCopy
  <2> QED BY <1>7, <1>8, <2>3 DEF LoadIInv
<1>11. CASE done + 1 # pages * Page
  <2>1. pc' = "copy" /\ done' = done + 1 /\ done' < pages' * Page
    BY <1>1, <1>2, <1>4, <1>11
  <2>2. Right(Split, Split + done)'
    BY <1>1, <1>4, <1>9, <2>1, ProgramKept DEF Right
  <2>3. Buffered(pages * Page)'
    <3>1. \A a \in 0 .. Top - 1 : a < Buffer + pages * Page => a # x
        BY <1>3, <1>4, <1>5
    <3> QED BY <1>1, <1>2, <1>7, <3>1, ProgramKept DEF Buffered
  <2>4. UpperIInv'
    BY <1>1, <1>2, <2>1, ProgramKept DEF UpperIInv
  <2>5. LowerIInv' /\ LatchIInv' /\ CopyIInv'
    BY <2>1, <2>2, <2>3 DEF LowerIInv, LatchIInv, CopyIInv, AfterCopy
  <2> QED BY <1>7, <1>8, <2>4, <2>5 DEF LoadIInv, PlaceIInv
<1> QED BY <1>10, <1>11

LEMMA FetchLowerKeeps ==
    ASSUME LoadIInv, FetchLower
    PROVE  LoadIInv'
<1>1. pc = "lower" /\ Fetch(dest, "start") /\ prg \in Programs /\ done \in Nat
    BY DEF FetchLower, LoadIInv, TypeIInv
<1>2. /\ currentOfs = 2 + done /\ dest = prg.start
      /\ pages = PagesOf(PrgSizeBelow) /\ done < pages * Page /\ latched = Byte(currentOfs)
    BY <1>1 DEF LoadIInv, PlaceIInv, LowerIInv, LatchIInv
<1>3. /\ PrgSizeBelow \in Nat /\ PrgSizeAbove \in Nat
      /\ pages # 0 /\ dest + pages * Page <= Top /\ dest + pages * Page <= End + Page
    BY <1>1, <1>2, Parts, PartsFit
<1>4. /\ pages * Page \in Nat /\ PrgSizeBelow <= pages * Page /\ dest \in Nat
      /\ Top \in Nat /\ End \in Int /\ Page \in Nat
    BY <1>1, <1>2, <1>3, PagesHold, MemoryAssumption, ProgramsFit DEF Fits, End
<1>5. /\ UNCHANGED <<prg, pages, dest>> /\ currentOfs' = currentOfs + 1
      /\ latched' = Byte(currentOfs + 1)
      /\ done' = IF done + 1 = pages * Page THEN 0 ELSE done + 1
      /\ pc' = IF done + 1 = pages * Page THEN "start" ELSE "lower"
      /\ mem' = [mem EXCEPT ![(dest + done) % Top] = latched]
    BY <1>1, <1>3 DEF Fetch
<1> DEFINE x == dest + done
<1>6. /\ x \in 0 .. Top - 1 /\ x % Top = x /\ x >= prg.start /\ x < End + Page + 2
      /\ currentOfs = x - prg.start + 2
    BY <1>1, <1>2, <1>3, <1>4
<1>7. latched \in Nat /\ mem' = [mem EXCEPT ![x] = latched] /\ Allowed(x)
  <2>1. latched \in Nat
    BY <1>1, <1>2, BytesTyped DEF LoadIInv, TypeIInv
  <2>2. Allowed(x)
    BY <1>6 DEF Allowed
  <2>3. mem' = [mem EXCEPT ![x] = latched]
    BY <1>5, <1>6
  <2> QED BY <2>1, <2>2, <2>3
<1>8. /\ MemIInv' /\ mem' \in [0 .. Top - 1 -> Nat] /\ mem'[x] = latched
      /\ \A a \in 0 .. Top - 1 : a # x => mem'[a] = mem[a]
  <2> HIDE DEF x
  <2> QED BY <1>5, <1>6, <1>7, ByteStored
<1>9. TypeIInv'
    BY <1>1, <1>8, FetchKeepsTypes DEF Places
<1>10. \A a \in 0 .. Top - 1 :
          mem[a] = Byte(a - prg.start + 2) \/ a = x => mem'[a] = Byte(a - prg.start + 2)
    BY <1>2, <1>6, <1>8
<1>11. \A a \in 0 .. Top - 1 :
          dest <= a /\ a < dest + done + 1 => mem'[a] = Byte(a - prg.start + 2)
  <2>1. Right(dest, dest + done)
    BY <1>1, <1>2 DEF LoadIInv, PlaceIInv, CopyIInv
  <2>2. \A a \in 0 .. Top - 1 : a < dest + done + 1 => a < dest + done \/ a = x
    BY <1>1, <1>4
  <2> QED BY <1>10, <2>1, <2>2 DEF Right
<1>12. PrgSizeAbove' # 0 => Right(Split, Split + PrgSizeAbove)'
  <2>1. PrgSizeAbove # 0 => Right(Split, Split + PrgSizeAbove)
    BY <1>1 DEF LoadIInv, PlaceIInv, CopyIInv, AfterCopy
  <2> QED BY <1>5, <1>10, <2>1, ProgramKept DEF Right
<1>13. CASE done + 1 = pages * Page
  <2>1. pc' = "start"
    BY <1>5, <1>13
  <2>2. Right(prg.start, prg.start + PrgSizeBelow)'
    <3>1. \A a \in 0 .. Top - 1 : a < dest + PrgSizeBelow => a < dest + done + 1
        BY <1>1, <1>3, <1>4, <1>13
    <3> QED BY <1>2, <1>5, <1>11, <3>1, ProgramKept DEF Right
  <2>3. PlaceIInv'
    BY <1>12, <2>1, <2>2 DEF PlaceIInv, UpperIInv, LowerIInv, LatchIInv, CopyIInv
  <2> QED BY <1>8, <1>9, <2>3 DEF LoadIInv
<1>14. CASE done + 1 # pages * Page
  <2>1. pc' = "lower" /\ done' = done + 1 /\ done' < pages' * Page
    BY <1>1, <1>2, <1>4, <1>5, <1>14
  <2>2. Right(prg.start, prg.start + done)'
    BY <1>1, <1>2, <1>4, <1>5, <1>11, <2>1, ProgramKept DEF Right
  <2>3. LowerIInv'
    BY <1>1, <1>2, <1>5, <2>1, ProgramKept DEF LowerIInv
  <2>4. UpperIInv' /\ LatchIInv' /\ CopyIInv'
    BY <1>5, <1>12, <2>1, <2>2, ProgramKept DEF UpperIInv, LatchIInv, CopyIInv
  <2> QED BY <1>8, <1>9, <2>3, <2>4 DEF LoadIInv, PlaceIInv
<1> QED BY <1>13, <1>14

LEMMA LoadInductive == Spec => []LoadIInv
<1>1. LoadIInv /\ [Next]_vars => LoadIInv'
    BY BootKeeps, StutterKeeps, InstallKeeps, AskKeeps, ReadPagesKeeps, FetchUpperKeeps,
       CopyUpperKeeps, FetchAddressKeeps, FetchLowerKeeps, StartKeeps DEF Next, Load, MainLoop
<1> QED BY <1>1, InitInvariant, PTL DEF Spec

(***************************************************************************)
(* What follows from the invariant                                         *)
(***************************************************************************)
(* When a program starts every byte of it is in its place, also after       *)
(* resets in the middle of the transfer (kernel_launch.cpp, cart.a).        *)
THEOREM ProgramIsLoaded == Spec => []ProgramLoaded
<1>1. LoadIInv => ProgramLoaded
  <2> SUFFICES ASSUME LoadIInv, pc = "run", NEW o \in 2 .. prg.size - 1
               PROVE  mem[prg.start + o - 2] = Byte(o)
    BY DEF ProgramLoaded
  <2> DEFINE a == prg.start + o - 2
  <2>1. prg \in Programs
    BY DEF LoadIInv, TypeIInv
  <2>2. Fits(prg) /\ Page \in Nat /\ Page >= 1 /\ Top \in Nat /\ Split \in Nat
    BY <2>1, ProgramsFit, MemoryAssumption
  <2>3. a \in 0 .. Top - 1 /\ a >= prg.start /\ a < prg.start + prg.size - 2
    BY <2>2 DEF Fits
  <2>4. /\ PrgSizeBelow \in Nat /\ PrgSizeAbove \in Nat
        /\ \/ PrgSizeAbove = 0 /\ PrgSizeBelow = prg.size - 2
           \/ /\ prg.start + PrgSizeBelow = Split
              /\ PrgSizeAbove = prg.size - PrgSizeBelow
    BY <2>1, Parts
  <2>5. /\ Right(prg.start, prg.start + PrgSizeBelow)
        /\ PrgSizeAbove # 0 => Right(Split, Split + PrgSizeAbove)
    BY DEF LoadIInv, PlaceIInv, CopyIInv, AfterCopy
  <2>6. mem[a] = Byte(a - prg.start + 2)
    <3>1. CASE a < prg.start + PrgSizeBelow
        BY <2>3, <2>5, <3>1 DEF Right
    <3>2. CASE ~(a < prg.start + PrgSizeBelow)
      <4>1. PrgSizeAbove # 0 /\ Split <= a /\ a < Split + PrgSizeAbove
          BY <2>2, <2>3, <2>4, <3>2 DEF Fits
      <4> QED BY <2>3, <2>5, <4>1 DEF Right
    <3> QED BY <3>1, <3>2
  <2>7. a - prg.start + 2 = o
    BY <2>2 DEF Fits
  <2> QED BY <2>6, <2>7
<1> QED BY <1>1, LoadInductive, PTL

(* A launch, also one that is cut off, overwrites nothing but what the C64  *)
(* and the loader use, the buffer's pages that the upper part needs, and    *)
(* the program's pages (cart.a, all stores of the loader).                  *)
THEOREM NothingElseIsWritten == Spec => []NothingElseWritten
<1>1. LoadIInv => NothingElseWritten
    BY DEF LoadIInv, MemIInv, Allowed, NothingElseWritten
<1> QED BY <1>1, LoadInductive, PTL

(***************************************************************************)
(* The stages in which the main loop watches the C64                       *)
(***************************************************************************)
(* A C64 that boots has read too little, and the cartridge is off in a      *)
(* running program only: a reset or a relaunch turns it on again.           *)
WatchIInv ==
    /\ stage \in 1 .. 2 /\ nBytesRead \in 0 .. Enough
    /\ pc = "boot" => nBytesRead < Enough
    /\ disableCart \in BOOLEAN /\ unlocked \in BOOLEAN
    /\ disableCart => pc = "run"

CountIInv ==
    /\ transferPart \in 0 .. 1 /\ latched \in Nat
    /\ resets \in 0 .. MaxResets /\ hangs \in 0 .. MaxHangs

LEMMA WatchStep ==
    ASSUME LoadIInv, WatchIInv, [Next]_vars
    PROVE  WatchIInv'
<1> USE MemoryAssumption DEF WatchIInv
<1>0. 0 \in 0 .. Enough /\ 0 < Enough /\ 1 \in 1 .. 2 /\ 2 \in 1 .. 2
    OBVIOUS
<1>1. CASE ReadRom
  <2>1. nBytesRead < Enough /\ UNCHANGED <<stage, disableCart, unlocked>> /\ ~disableCart
    BY <1>1 DEF ReadRom, handler
  <2>2. nBytesRead' \in {nBytesRead, nBytesRead + 1}
    BY <1>1 DEF ReadRom
  <2>3. pc' = "boot" => nBytesRead' = nBytesRead + 1 /\ nBytesRead' # Enough
    BY <1>1 DEF ReadRom
  <2> QED BY <2>1, <2>2, <2>3
<1>2. CASE Hang
    BY <1>2 DEF Hang, handler
<1>3. CASE ShortReset \/ Relaunch
    BY <1>0, <1>3 DEF ShortReset, Relaunch
<1>4. CASE SeeRead \/ ResetAgain \/ UnlockModem
  <2>1. CASE SeeRead
      BY <1>0, <2>1 DEF SeeRead, handler
  <2>2. CASE ResetAgain
    <3>1. /\ ~disableCart /\ UNCHANGED <<disableCart, unlocked>>
          /\ stage' = 1 /\ nBytesRead' = 0 /\ pc' = "boot"
        BY <2>2 DEF ResetAgain, handler
    <3> QED BY <1>0, <3>1
  <2>3. CASE UnlockModem
    <3>1. unlocked' = TRUE /\ UNCHANGED <<disableCart, stage, nBytesRead, pc>>
        BY <2>3 DEF UnlockModem, handler
    <3> QED BY <3>1
  <2> QED BY <1>4, <2>1, <2>2, <2>3
<1>5. CASE \/ InstallLoader \/ AskUpper \/ ReadPages \/ FetchUpper \/ CopyUpper
           \/ AskLower \/ FetchAddress \/ FetchLower
  <2>1. UNCHANGED <<stage, nBytesRead, disableCart, unlocked>> /\ pc # "run" /\ pc' # "boot"
    BY <1>5 DEF InstallLoader, AskUpper, ReadPages, FetchUpper, CopyUpper, AskLower,
                FetchAddress, FetchLower, Fetch, handler
  <2> QED BY <2>1
<1>6. CASE StartProgram
    BY <1>6 DEF StartProgram
<1>7. CASE UNCHANGED vars
    BY <1>7 DEF vars, handler
<1> QED BY <1>1, <1>2, <1>3, <1>4, <1>5, <1>6, <1>7 DEF Next, Load, MainLoop

LEMMA CountStep ==
    ASSUME LoadIInv, CountIInv, [Next]_vars
    PROVE  CountIInv'
<1> USE LimitsAssumption DEF CountIInv
<1>0. prg \in Programs /\ currentOfs \in Nat
    BY DEF LoadIInv, TypeIInv
<1>1. \A o \in Nat : Byte(o) \in Nat
    BY <1>0, BytesTyped
<1>2. CASE \/ ReadRom \/ SeeRead \/ ResetAgain \/ UnlockModem \/ InstallLoader \/ CopyUpper
           \/ UNCHANGED vars
    BY <1>2 DEF ReadRom, SeeRead, ResetAgain, UnlockModem, InstallLoader, CopyUpper, vars, handler
<1>3. CASE Hang \/ ShortReset \/ Relaunch
    BY <1>3 DEF Hang, ShortReset, Relaunch, handler
<1>4. CASE AskUpper \/ AskLower \/ StartProgram
  <2>1. PrgSizeBelow + 2 \in Nat /\ 0 \in Nat
    BY <1>0, Parts
  <2>2. UNCHANGED <<resets, hangs>> /\ transferPart' \in 0 .. 1
    BY <1>4 DEF AskUpper, AskLower, StartProgram
  <2>3. latched' \in {Byte(PrgSizeBelow + 2), Byte(0)}
    BY <1>4 DEF AskUpper, AskLower, StartProgram
  <2> QED BY <1>1, <2>1, <2>2, <2>3
<1>5. CASE ReadPages \/ FetchUpper \/ FetchAddress \/ FetchLower
  <2>1. /\ UNCHANGED <<transferPart, resets, hangs>>
        /\ latched' \in {Byte(currentOfs), Byte(currentOfs + 1), Byte(currentOfs + 2)}
    BY <1>5 DEF ReadPages, FetchUpper, FetchAddress, FetchLower, Fetch
  <2>2. currentOfs + 1 \in Nat /\ currentOfs + 2 \in Nat
    BY <1>0
  <2> QED BY <1>0, <1>1, <2>1, <2>2
<1> QED BY <1>2, <1>3, <1>4, <1>5 DEF Next, Load, MainLoop

LEMMA WatchInductive == Spec => [](LoadIInv /\ WatchIInv /\ CountIInv)
<1>1. Init => WatchIInv /\ CountIInv
  <2> SUFFICES ASSUME Init PROVE WatchIInv /\ CountIInv
    OBVIOUS
  <2>1. prg \in Programs
    BY DEF Init
  <2>2. Byte(0) \in Nat
    BY <2>1, BytesTyped
  <2>3. /\ 0 \in 0 .. Enough /\ 0 < Enough /\ 1 \in 1 .. 2 /\ 1 \in 0 .. 1
        /\ 0 \in 0 .. MaxResets /\ 0 \in 0 .. MaxHangs
    BY MemoryAssumption, LimitsAssumption
  <2> QED
    BY <2>2, <2>3 DEF Init, WatchIInv, CountIInv
<1>2. LoadIInv /\ WatchIInv /\ CountIInv /\ [Next]_vars => WatchIInv' /\ CountIInv'
    BY WatchStep, CountStep
<1> QED BY <1>1, <1>2, LoadInductive, PTL DEF Spec

(* Every state of the launcher is well typed.                               *)
THEOREM LoaderTypeCorrect == Spec => []TypeOK
<1>1. LoadIInv /\ WatchIInv /\ CountIInv => TypeOK
    BY DEF LoadIInv, TypeIInv, WatchIInv, CountIInv, Places, TypeOK
<1> QED BY <1>1, WatchInductive, PTL

(* A C64 that is stuck after its first reads, but before Enough of them, is *)
(* never out of the main loop's sight: the step that notices the reads or   *)
(* the one that resets it has its condition (kernel_launch.cpp, the two     *)
(* stages), whatever resets, relaunches and transfers came before.          *)
(* HungIsReset needs this at every state at which it waits.                 *)
Watched ==
    pc = "hung" /\ nBytesRead \in 1 .. Enough - 1 =>
       ~disableCart /\ (stage = 1 \/ (stage = 2 /\ nBytesRead < Enough))

THEOREM HungIsWatched == Spec => []Watched
<1>1. WatchIInv => Watched
    BY MemoryAssumption DEF WatchIInv, Watched
<1> QED BY <1>1, WatchInductive, PTL
=============================================================================
