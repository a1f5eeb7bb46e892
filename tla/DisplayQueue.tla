---------------------------- MODULE DisplayQueue ----------------------------
(***************************************************************************)
(* The ring buffer between the main loop of a kernel and its FIQ handler   *)
(* (latch.h, latch.cpp).  The displays hang on spare outputs of the latch, *)
(* their clock and data lines are toggled in software: whoever draws puts  *)
(* commands into i2cBuffer, and the FIQ handler, which runs once in every  *)
(* cycle of the C64's bus, takes one or a few out and writes the latch.    *)
(*                                                                         *)
(* Three programs use it, told apart by the variable display:              *)
(*   "oled"    the SID kernels with an SSD1306: the main loop sends frames,*)
(*             renderDone says whose turn it is                            *)
(*   "tft"     the SID kernels with an ST7789: the main loop draws while   *)
(*             the FIQ handler sends                                       *)
(*   "slides"  the EasyFlash kernel: the FIQ handler draws a column when   *)
(*             the buffer is empty, and sends, both in one call            *)
(*                                                                         *)
(* The FIQ handler interrupts the main loop between any two of its memory  *)
(* accesses and is itself never interrupted.  A command is its number, so  *)
(* which lines it toggles, and the two or four bits it takes, are left out.*)
(***************************************************************************)
EXTENDS Naturals

CONSTANTS Size,          \* FAKE_I2C_BUF_SIZE, in commands
          Frame,         \* commands that a frame of the OLED takes
          Batch,         \* most commands that one drawing operation puts in
          Slack,         \* free entries an ST7789 drawing waits for (1024)
          Users,         \* the programs considered
          MaxCommands,   \* bound: commands put in
          MaxResets      \* bound: resets of the C64

ASSUME SizesAssumption ==
    /\ Size \in Nat \ {0} /\ Frame \in Nat \ {0} /\ Batch \in Nat \ {0}
    /\ Frame < Size /\ Batch < Size
    /\ Slack \in Nat
ASSUME UsersAssumption == Users \subseteq {"oled", "tft", "slides"}
ASSUME BoundsAssumption == MaxCommands \in Nat /\ MaxResets \in Nat

VARIABLES
    display,      \* the program that runs
    cell,         \* i2cBuffer: the number of the command in every entry
    last, cur,    \* i2cBufferCountLast, i2cBufferCountCur
    renderDone,   \* 0 draw, 1 frame complete, 2 main loop sends, 3 FIQ sends
    sent,         \* sendFramebuffer: commands of this frame put in so far
    pc,           \* where the drawing code is
    left,         \* commands its drawing operation has still to put in
    reg,          \* the register into which a put has loaded cur
    fiq,          \* "more": the handler looks for another command
    put,          \* commands put in so far
    got,          \* the last command taken out
    resets        \* resets of the C64 so far

ring == <<cell, last, cur>>
drawing == <<pc, left, reg>>
vars == <<display, ring, renderDone, sent, drawing, fiq, put, got, resets>>

Entries == 0 .. Size - 1

TypeOK ==
    /\ display \in Users
    /\ cell \in [Entries -> Nat] /\ last \in Entries /\ cur \in Entries
    /\ renderDone \in 0 .. 3 /\ sent \in 0 .. Frame
    /\ pc \in {"loop", "load", "write", "store"}
    /\ left \in 0 .. Size /\ reg \in Entries
    /\ fiq \in {"idle", "more"}
    /\ put \in Nat /\ got \in Nat /\ resets \in Nat

Init ==
    /\ display \in Users
    /\ cell = [e \in Entries |-> 0] /\ last = 0 /\ cur = 0
    /\ renderDone = 0 /\ sent = 0
    /\ pc = "loop" /\ left = 0 /\ reg = 0 /\ fiq = "idle"
    /\ put = 0 /\ got = 0 /\ resets = 0

(***************************************************************************)
(* The counters                                                            *)
(***************************************************************************)
Slip_Succ(x) == IF x = Size THEN 0 ELSE x + 1

\* x ++, x &= FAKE_I2C_BUF_SIZE - 1
Succ(x) == IF x + 1 = Size THEN 0 ELSE x + 1

\* bufferEmptyI2C
Empty == last = cur

Queued == IF cur >= last THEN cur - last ELSE cur + Size - last

\* bufferIsFreeI2C
Free == Size - 1 - Queued

(***************************************************************************)
(* The drawing code                                                        *)
(***************************************************************************)
\* A step of the code that draws: not while the handler runs
Drawing(at) == pc = at /\ fiq = "idle"

\* The oscilloscope has collected the samples of a frame
Collect ==
    /\ Drawing("loop") /\ display = "oled"
    /\ renderDone = 0 /\ put + Frame <= MaxCommands
    /\ renderDone' = 1
    /\ UNCHANGED <<display, ring, sent, drawing, fiq, put, got, resets>>

\* Slip: the position in the frame is not set back
Slip_StartFrame ==
    /\ Drawing("loop") /\ renderDone = 1 /\ Empty
    /\ renderDone' = 2
    /\ UNCHANGED <<display, ring, sent, drawing, fiq, put, got, resets>>

\* sendFramebufferStart, when the last frame has left
StartFrame ==
    /\ Drawing("loop") /\ renderDone = 1 /\ Empty
    /\ renderDone' = 2 /\ sent' = 0
    /\ UNCHANGED <<display, ring, drawing, fiq, put, got, resets>>

\* sendFramebufferNext: the commands of the next byte
SendNext ==
    /\ Drawing("loop") /\ renderDone = 2 /\ sent < Frame
    /\ \E n \in 1 .. Batch : n <= Frame - sent /\ left' = n
    /\ pc' = "load"
    /\ UNCHANGED <<display, ring, renderDone, sent, reg, fiq, put, got, resets>>

\* Slip: done is one past the end
Slip_FrameSent ==
    /\ Drawing("loop") /\ renderDone = 2 /\ sent = Frame + 1
    /\ renderDone' = 3
    /\ UNCHANGED <<display, ring, sent, drawing, fiq, put, got, resets>>

\* sendFramebufferDone: the frame now belongs to the handler
FrameSent ==
    /\ Drawing("loop") /\ renderDone = 2 /\ sent = Frame
    /\ renderDone' = 3
    /\ UNCHANGED <<display, ring, sent, drawing, fiq, put, got, resets>>

\* Slip: nobody waits for the queue to empty
Slip_Draw ==
    /\ Drawing("loop") /\ display \in {"tft", "slides"}
    /\ \E n \in 1 .. Batch : put + n <= MaxCommands /\ left' = n
    /\ pc' = "load"
    /\ UNCHANGED <<display, ring, renderDone, sent, reg, fiq, put, got, resets>>

\* Pixels for an ST7789: the main loop when there is room for them, the
\* slide show only when everything has left.  That it pauses between images,
\* and while the cartridge is not disabled (ef.reg2), is left open: it may draw
\* in any cycle
Draw ==
    /\ Drawing("loop")
    /\ \/ display = "tft" /\ (Empty \/ Free > Slack)
       \/ display = "slides" /\ Empty
    /\ \E n \in 1 .. Batch : put + n <= MaxCommands /\ left' = n
    /\ pc' = "load"
    /\ UNCHANGED <<display, ring, renderDone, sent, reg, fiq, put, got, resets>>

\* putI2CCommand and put4BitCommand read the counter ...
LoadCur ==
    /\ Drawing("load")
    /\ reg' = cur /\ pc' = "write"
    /\ UNCHANGED <<display, ring, renderDone, sent, left, fiq, put, got, resets>>

\* ... store the command there ...
WriteCell ==
    /\ Drawing("write")
    /\ cell' = [cell EXCEPT ![reg] = put + 1] /\ pc' = "store"
    /\ UNCHANGED <<display, last, cur, renderDone, sent, left, reg, fiq, put, got, resets>>

\* ... and write the counter back
StoreCur ==
    /\ Drawing("store")
    /\ cur' = Succ(reg) /\ put' = put + 1 /\ left' = left - 1
    /\ pc' = IF left = 1 THEN "loop" ELSE "load"
    /\ sent' = IF display = "oled" THEN sent + 1 ELSE sent
    /\ UNCHANGED <<display, cell, last, renderDone, reg, fiq, got, resets>>

\* A reset of the C64 restarts the SID kernel: initLatch clears the queue,
\* renderDone and the position in the frame keep their values.  An
\* EasyFlash kernel does not restart.
Reset ==
    /\ Drawing("loop") /\ display # "slides" /\ resets < MaxResets
    /\ last' = 0 /\ cur' = 0 /\ got' = put /\ resets' = resets + 1
    /\ UNCHANGED <<display, cell, renderDone, sent, drawing, fiq, put>>

(***************************************************************************)
(* The FIQ handler                                                         *)
(***************************************************************************)
\* Slip: the handler does not wait for its turn
Slip_Sends == display = "oled" => fiq = "more" \/ renderDone >= 2

\* It looks at the queue: with an OLED only when a frame is complete, and
\* the slide show's handler when it does not draw
Sends == \/ fiq = "more"
         \/ display = "oled" /\ renderDone = 3
         \/ display = "tft"
         \/ display = "slides" /\ pc = "loop"

\* getI2CCommand or get4BitCommand.  A command that changes no line is
\* skipped and the handler goes on: prepareOutputLatch only if there is
\* another one, prepareOutputLatch4Bit tests the queue anew.
TakeCommand ==
    /\ Sends /\ ~Empty
    /\ got' = cell[last] /\ last' = Succ(last)
    /\ \/ fiq' = "idle"
       \/ fiq' = "more" /\ (display = "oled" => last' # cur)
    /\ renderDone' = IF display = "oled" /\ last' = cur THEN 0 ELSE renderDone
    /\ UNCHANGED <<display, cell, cur, sent, drawing, put, resets>>

\* An empty queue: the handler sets both counters to 0
NothingQueued ==
    /\ Sends /\ Empty
    /\ last' = 0 /\ cur' = 0 /\ fiq' = "idle"
    /\ renderDone' = IF display = "oled" THEN 0 ELSE renderDone
    /\ UNCHANGED <<display, cell, sent, drawing, put, got, resets>>

Program == Collect \/ StartFrame \/ SendNext \/ FrameSent \/ Draw
               \/ LoadCur \/ WriteCell \/ StoreCur

Handler == TakeCommand \/ NothingQueued

Next == Program \/ Handler \/ Reset

(***************************************************************************)
(* The handler runs in every cycle of the C64, and what it interrupts goes *)
(* on in between: the handler does not take the whole cycle.               *)
(***************************************************************************)
Fairness == SF_vars(Program) /\ WF_vars(Handler)

Spec == Init /\ [][Next]_vars /\ Fairness

(***************************************************************************)
(* Properties                                                              *)
(***************************************************************************)
\* latch.h calls it "a ring buffer": commands leave in order, each once.
Fifo == INSTANCE CommandFifo WITH put <- put, got <- got

InOrder == Fifo!Spec

\* A frame of the OLED that is complete is shown: the main loop gets it into
\* the queue, the handler gets it out, and collecting starts again
\* (kernel_sid.cpp: renderDone).
FrameShown == renderDone = 1 ~> renderDone = 0

\* While the main loop fills the queue with a frame of the OLED the handler
\* keeps off it, and when the handler's turn comes the frame is there.  After
\* a reset the rest of a frame may be all that is.
TurnsTaken ==
    display = "oled" =>
        /\ pc # "loop" => renderDone = 2
        /\ fiq = "more" => renderDone = 3
        /\ renderDone = 3 /\ resets = 0 => ~Empty

\* What is drawn gets out: a column of the slide show is sent before the
\* next one is drawn (kernel_ef.cpp: bufferEmptyI2C), and of a frame of the
\* OLED no command stays behind.
CommandsLeave == put > got ~> put = got
============================================================================
